---------------------------- MODULE Spec2Model ----------------------------
(***************************************************************************)
(* A model of the OSAL shared layer: the object-id manager, the resource   *)
(* wrappers built on it (binary semaphores, queues, time bases, file       *)
(* systems) and the time base servicing thread.                            *)
(*                                                                         *)
(* Application tasks are the members of Threads.  Every public function is *)
(* one action, made of the steps between which another task can run: the   *)
(* call (argument checks), the acquisition of the type-lock inside the id  *)
(* manager, and the part executed while the lock (or a reference) is held. *)
(***************************************************************************)
EXTENDS Integers, Sequences, FiniteSets, TLC

(***************************************************************************)
(* Bounds of the model.                                                    *)
(***************************************************************************)
MaxSlots   == 2   \* capacity of every per-type table (OS_MAX_<type>)
MaxIssued  == 3   \* serial numbers handed out in a run, over all types

\* the application tasks that call the API concurrently
Threads == { 1, 2 }

(***************************************************************************)
(* Object id codec (os-shared-idmap.h) and the constants it rests on.      *)
(***************************************************************************)
OS_OBJECT_TYPE_SHIFT == 16
OS_OBJECT_INDEX_MASK == 65535
\* An osal_id_t is a 32-bit value.  It is kept as the pair of its two 16-bit
\* halves << id >> 16, id & 0xFFFF >>, the integers of TLC being 32-bit signed.
Half == 65536
OS_OBJECT_ID_UNDEFINED == << 0, 0 >>
OS_OBJECT_ID_RESERVED == << 65535, 65535 >>
OS_OBJECT_EXCL_REQ_FLAG == 1

OS_OBJECT_TYPE_OS_TASK == 1
OS_OBJECT_TYPE_OS_QUEUE == 2
OS_OBJECT_TYPE_OS_BINSEM == 4
OS_OBJECT_TYPE_OS_TIMEBASE == 8
OS_OBJECT_TYPE_OS_TIMECB == 9
OS_OBJECT_TYPE_OS_FILESYS == 11

Types == { OS_OBJECT_TYPE_OS_QUEUE, OS_OBJECT_TYPE_OS_BINSEM, OS_OBJECT_TYPE_OS_TIMEBASE,
           OS_OBJECT_TYPE_OS_TIMECB, OS_OBJECT_TYPE_OS_FILESYS }

Pow2(n) == 2 ^ n

\* a uint32 that is not an id is kept as its two 16-bit halves as well;
\* U32Add is the sum modulo 2^32 of such a value and a number below 2^31
U32Add(a, n) ==
    LET lo == a[2] + (n % Half)
        hi == a[1] + (n \div Half) + (lo \div Half)
    IN  << hi % Half, lo % Half >>

\* the number a uint32 below 2^31 stands for
U32Value(a) == a[1] * Half + a[2]

RECURSIVE BitOr(_, _)
BitOr(a, b) ==
    IF b = 0 THEN a
    ELSE IF a = 0 THEN b
    ELSE (IF a % 2 = 1 \/ b % 2 = 1 THEN 1 ELSE 0) + 2 * BitOr(a \div 2, b \div 2)

RECURSIVE BitAnd(_, _)
BitAnd(a, b) ==
    IF a = 0 \/ b = 0 THEN 0
    ELSE (IF a % 2 = 1 /\ b % 2 = 1 THEN 1 ELSE 0) + 2 * BitAnd(a \div 2, b \div 2)

\* return (OS_ObjectIdToInteger(id) & OS_OBJECT_INDEX_MASK);
OS_ObjectIdToSerialNumber_Impl(id) ==
    BitAnd(id[2], OS_OBJECT_INDEX_MASK % Half)
        + Half * BitAnd(id[1], OS_OBJECT_INDEX_MASK \div Half)

\* return (OS_ObjectIdToInteger(id) >> OS_OBJECT_TYPE_SHIFT);
OS_ObjectIdToType_Impl(id) ==
    IF OS_OBJECT_TYPE_SHIFT >= 16
    THEN id[1] \div Pow2(OS_OBJECT_TYPE_SHIFT - 16)
    ELSE id[1] * Pow2(16 - OS_OBJECT_TYPE_SHIFT) + id[2] \div Pow2(OS_OBJECT_TYPE_SHIFT)

\* the composition without the shift of the type
OS_ObjectIdCompose_NoShift(idtype, idserial) ==
    << (idserial \div Half) % Half, BitOr(idtype % Half, idserial % Half) >>

\* *result = (idtype << OS_OBJECT_TYPE_SHIFT) | idserial, in 32 bits
OS_ObjectIdCompose_Impl(idtype, idserial) ==
    LET shifted == idtype * Pow2(OS_OBJECT_TYPE_SHIFT)
    IN  << BitOr((shifted \div Half) % Half, (idserial \div Half) % Half),
           BitOr(shifted % Half, idserial % Half) >>

OS_ObjectIdEqual(a, b) == a = b
OS_ObjectIdDefined(id) == id # OS_OBJECT_ID_UNDEFINED

\* capacity of the table of a type
OS_GetMaxForObjectType(idtype) ==
    IF idtype \in Types \cup { OS_OBJECT_TYPE_OS_TASK } THEN MaxSlots ELSE 0

Slots == 0 .. (MaxSlots - 1)

\* slot_of: the serial's low part is the slot; fails on a foreign type
OS_ObjectIdToArrayIndex(idtype, id) ==
    IF OS_ObjectIdToType_Impl(id) # idtype \/ OS_GetMaxForObjectType(idtype) = 0
    THEN [rc |-> "OS_ERR_INVALID_ID", idx |-> 0]
    ELSE [rc |-> "OS_SUCCESS",
          idx |-> OS_ObjectIdToSerialNumber_Impl(id) % OS_GetMaxForObjectType(idtype)]

\* a slot is active when its id is a well-formed handle of the table's type
IsActive(idtype, rec) ==
    /\ rec.active_id # OS_OBJECT_ID_UNDEFINED
    /\ rec.active_id # OS_OBJECT_ID_RESERVED
    /\ OS_ObjectIdToType_Impl(rec.active_id) = idtype


(***************************************************************************)
(* State.                                                                  *)
(***************************************************************************)
VARIABLES
    table,            \* [type -> [slot -> OS_common_record_t]]
    internal,         \* [type -> [slot -> the type's internal record]]
    last_id_issued,   \* [type -> the serial number issued last]
    lock,             \* [type -> 0, or the task that holds the type-lock]
    th,               \* [task -> its call in progress: position and arguments]
    result,           \* what the last step returned to its caller, if it was a return
    deleted,          \* handles whose Delete has returned OS_SUCCESS, not issued again since
    unlock_errors,    \* releases of a type-lock by a task that did not hold it
    svc,              \* the servicing task of a time base: position and locals
    ticks,            \* the number of nonzero tick times the sync function has returned
    armed,            \* [timer slot -> the wait and interval times it was armed with]
    calls,            \* [timer slot -> the ticks at which its callback was invoked]
    ticks_before,     \* the nonzero tick times returned before the run observed here
    common,           \* OS_SharedGlobalVars, and what the calls of osapi-common.c did
    codec,            \* a type and a serial number, and what the id codec makes of them
    registered        \* [task -> the handle that OS_TaskGetId_Impl gives for it]

idvars == << table, internal, last_id_issued, lock, th, result, deleted, unlock_errors >>
tvars == << svc, ticks, armed, calls, ticks_before >>
xvars == << common, codec, registered >>
vars == << table, internal, last_id_issued, lock, th, result, deleted, unlock_errors,
           svc, ticks, armed, calls, ticks_before, common, codec, registered >>

\* names and paths are character sequences; NullPtr stands for a NULL argument
NullPtr == << "NULL" >>
EmptyStr == << >>

\* a zeroed OS_common_record_t
ZeroCommon ==
    [ name_entry |-> "NULL", active_id |-> OS_OBJECT_ID_UNDEFINED,
      creator |-> OS_OBJECT_ID_UNDEFINED, refcount |-> 0, flags |-> 0 ]

\* a zeroed internal record: memset(OS_<type>_table, 0, ...)
ZeroInternal(idtype) ==
    IF idtype = OS_OBJECT_TYPE_OS_QUEUE
    THEN [ name |-> EmptyStr, max_depth |-> 0, max_size |-> 0, msgs |-> << >> ]
    ELSE IF idtype = OS_OBJECT_TYPE_OS_TIMEBASE
    THEN [ name |-> EmptyStr, external_sync |-> "NULL", accuracy_usec |-> 0,
           nominal_start_time |-> 0, nominal_interval_time |-> 0,
           freerun_time |-> << 0, 0 >>, first_cb |-> OS_OBJECT_ID_UNDEFINED ]
    ELSE IF idtype = OS_OBJECT_TYPE_OS_TIMECB
    THEN [ name |-> EmptyStr, wait_time |-> 0, interval_time |-> 0, backlog_resets |-> 0,
           callback_ptr |-> "NULL", next_ref |-> 0 ]
    ELSE IF idtype = OS_OBJECT_TYPE_OS_FILESYS
    THEN [ name |-> EmptyStr, volume_name |-> EmptyStr, system_mountpt |-> EmptyStr,
           virtual_mountpt |-> EmptyStr, fstype |-> "UNKNOWN", flags |-> {} ]
    ELSE [ name |-> EmptyStr ]

\* the content of an id variable of the caller that no call has written
NoId == << -1, -1 >>

\* OS_SharedGlobalVars as it is at boot, and the main task of the application in
\* no call: its position pc, the locals of the call it is in, and the counts of
\* what its calls have done
CommonInit ==
    [ Initialized |-> FALSE, ShutdownFlag |-> << 0, 0 >>, MicroSecPerTick |-> 0,
      TicksPerSecond |-> 0,
      pc |-> "idle", idtype |-> 0, return_code |-> "OS_SUCCESS", flag |-> 0,
      ObjectCount |-> 0, TryCount |-> 0, cursor |-> 0, called |-> "none",
      init_calls |-> 0, init_steps |-> 0, wakes |-> 0, sweeps |-> 0, delays |-> << >>,
      pass_deleted |-> 0 ]

\* no type and serial number have been put to the id codec
NoCodec ==
    [ idtype |-> 0, idserial |-> 0, id |-> OS_OBJECT_ID_UNDEFINED, type |-> 0, serial |-> 0,
      index |-> [ rc |-> "none", idx |-> 0 ] ]

\* a task that is in no call
IdleTh ==
    [ pc |-> "idle", op |-> "none", id |-> OS_OBJECT_ID_UNDEFINED, arg |-> EmptyStr,
      slot |-> 0, attempts |-> 0 ]

\* the handle of an application task: the active_id of its entry in the task table
TaskHandle(t) == OS_ObjectIdCompose_Impl(OS_OBJECT_TYPE_OS_TASK, t)

\* OS_TaskGetId_Impl: the handle of the calling task; for an application task
\* its task handle, for the servicing task of a time base (OS_TaskRegister_Impl
\* in OS_TimeBase_CallbackThread) the handle of the time base
OS_TaskGetId_Impl(t) == registered[t]

(***************************************************************************)
(* The type-lock.  OS_Lock_Global blocks while another task holds the      *)
(* lock: a step that takes the lock is enabled only when it is free.       *)
(***************************************************************************)
\* OS_Lock_Global blocks while another task holds the type-lock
LockFree(idtype) == lock[idtype] = 0

OS_Lock_Global(lk, t, idtype) == [lk EXCEPT ![idtype] = t]

OS_Unlock_Global(lk, t, idtype) == [lk EXCEPT ![idtype] = 0]

\* a release by a task that is not the holder is counted
UnlockError(lk, t, idtype) == IF lk[idtype] = t THEN 0 ELSE 1

(***************************************************************************)
(* The id manager.  Each function is an operator from the current tables   *)
(* to its return code and the tables it leaves; "held" tells whether the   *)
(* type-lock is still held by the caller on return.                        *)
(***************************************************************************)
OS_EXCLUSIVE_RETRIES == 4

LockModes == { "NONE", "GLOBAL", "REFCOUNT", "EXCLUSIVE" }

\* built-in name predicate of get-by-name
OS_ObjectNameMatch(ref, idtype, local_id) ==
    /\ table[idtype][local_id].name_entry # "NULL"
    /\ internal[idtype][local_id].name = ref

NextSerial(serial) == IF serial >= OS_OBJECT_INDEX_MASK THEN 1 ELSE serial + 1

\* the next serial after "serial" whose slot is free; 0 when every slot is taken
RECURSIVE OS_ObjectIdFindNext(_, _, _)
OS_ObjectIdFindNext(idtype, serial, tries) ==
    IF tries = 0 THEN 0
    ELSE LET n == NextSerial(serial)
         IN  IF table[idtype][n % OS_GetMaxForObjectType(idtype)].active_id
                    = OS_OBJECT_ID_UNDEFINED
             THEN n
             ELSE OS_ObjectIdFindNext(idtype, n, tries - 1)

OS_ObjectIdAllocateNew(t, idtype, name) ==
    IF name # EmptyStr /\ \E s \in Slots :
            IsActive(idtype, table[idtype][s]) /\ OS_ObjectNameMatch(name, idtype, s)
    THEN [ rc |-> "OS_ERR_NAME_TAKEN", idx |-> 0, tab |-> table[idtype],
           last |-> last_id_issued[idtype], held |-> FALSE ]
    ELSE LET n == OS_ObjectIdFindNext(idtype, last_id_issued[idtype],
                                      OS_GetMaxForObjectType(idtype))
             i == n % OS_GetMaxForObjectType(idtype)
         IN  IF n = 0
             THEN [ rc |-> "OS_ERR_NO_FREE_IDS", idx |-> 0, tab |-> table[idtype],
                    last |-> last_id_issued[idtype], held |-> FALSE ]
             ELSE [ rc |-> "OS_SUCCESS", idx |-> i,
                    tab |-> [table[idtype] EXCEPT ![i] =
                                [ name_entry |-> "NULL",
                                  active_id |-> OS_OBJECT_ID_RESERVED,
                                  creator |-> OS_TaskGetId_Impl(t),
                                  refcount |-> 0, flags |-> 0 ]],
                    last |-> n, held |-> TRUE ]

\* OS_ObjectIdFinalizeNew that leaves the record as it is when the wrapper's work
\* has failed
OS_ObjectIdFinalizeNew_KeepsRecord(operation_status, idtype, local_id, int) ==
    IF operation_status = "OS_SUCCESS"
    THEN LET h == OS_ObjectIdCompose_Impl(idtype, last_id_issued[idtype])
         IN  [ rc |-> "OS_SUCCESS", outid |-> h,
               tab |-> [table[idtype] EXCEPT ![local_id].active_id = h],
               int |-> int, held |-> FALSE ]
    ELSE [ rc |-> operation_status, outid |-> OS_OBJECT_ID_UNDEFINED,
           tab |-> table[idtype], int |-> int, held |-> FALSE ]

\* outid is the handle written through the caller's pointer; "int" is the
\* internal table of the type as the wrapper has filled it in
OS_ObjectIdFinalizeNew(operation_status, idtype, local_id, int) ==
    IF operation_status = "OS_SUCCESS"
    THEN LET h == OS_ObjectIdCompose_Impl(idtype, last_id_issued[idtype])
         IN  [ rc |-> "OS_SUCCESS", outid |-> h,
               tab |-> [table[idtype] EXCEPT ![local_id].active_id = h],
               int |-> int, held |-> FALSE ]
    ELSE [ rc |-> operation_status, outid |-> OS_OBJECT_ID_UNDEFINED,
           tab |-> [table[idtype] EXCEPT ![local_id].active_id = OS_OBJECT_ID_UNDEFINED],
           int |-> [int EXCEPT ![local_id].name = EmptyStr],
           held |-> FALSE ]

\* the lock-mode policy applied to the record found, the type-lock being held
OS_ObjectIdConvertLock(lock_mode, idtype, reference_id, local_id, attempts) ==
    LET obj == table[idtype][local_id]
        same == [ rc |-> "OS_SUCCESS", idx |-> local_id, tab |-> table[idtype],
                  held |-> FALSE, wait |-> FALSE ]
    IN  IF ~OS_ObjectIdEqual(obj.active_id, reference_id)
        THEN [same EXCEPT !.rc = "OS_ERR_INVALID_ID"]
        ELSE IF lock_mode = "NONE"
        THEN same
        ELSE IF lock_mode = "GLOBAL"
        THEN [same EXCEPT !.held = TRUE]
        ELSE IF lock_mode = "REFCOUNT"
        THEN [same EXCEPT !.tab = [table[idtype] EXCEPT
                                     ![local_id].refcount = (obj.refcount + 1) % Pow2(16)]]
        ELSE \* EXCLUSIVE
             IF obj.refcount = 0
             THEN [same EXCEPT !.held = TRUE]
             ELSE IF attempts < OS_EXCLUSIVE_RETRIES
             THEN [same EXCEPT !.rc = "retry", !.wait = TRUE,
                               !.tab = [table[idtype] EXCEPT ![local_id].flags =
                                           OS_OBJECT_EXCL_REQ_FLAG]]
             ELSE [same EXCEPT !.rc = "OS_ERR_OBJECT_IN_USE",
                               !.tab = [table[idtype] EXCEPT ![local_id].flags =
                                           OS_OBJECT_EXCL_REQ_FLAG]]

\* TRUE when the lookup gets as far as taking the type-lock
GetByIdLocks(idtype, id) == OS_ObjectIdToArrayIndex(idtype, id).rc = "OS_SUCCESS"

OS_ObjectIdGetById(lock_mode, idtype, id, attempts) ==
    LET a == OS_ObjectIdToArrayIndex(idtype, id)
    IN  IF a.rc # "OS_SUCCESS"
        THEN [ rc |-> "OS_ERR_INVALID_ID", idx |-> 0, tab |-> table[idtype],
               held |-> FALSE, wait |-> FALSE ]
        ELSE OS_ObjectIdConvertLock(lock_mode, idtype, id, a.idx, attempts)

StrLen(str) == Len(str)

\* OS_FileSys_FindVirtMountPoint that does not look at the character after the
\* mount point
OS_FileSys_FindVirtMountPoint_AnyPrefix(ref, idtype, local_id) ==
    LET rec == internal[OS_OBJECT_TYPE_OS_FILESYS][local_id]
        mplen == StrLen(rec.virtual_mountpt)
    IN  IF "IS_MOUNTED_VIRTUAL" \notin rec.flags
        THEN FALSE
        ELSE /\ mplen > 0
             /\ Len(ref) >= mplen
             /\ SubSeq(ref, 1, mplen) = rec.virtual_mountpt

\* the match function of the file systems: ref is a path under the virtual
\* mount point of the record
OS_FileSys_FindVirtMountPoint(ref, idtype, local_id) ==
    LET rec == internal[OS_OBJECT_TYPE_OS_FILESYS][local_id]
        mplen == StrLen(rec.virtual_mountpt)
    IN  IF "IS_MOUNTED_VIRTUAL" \notin rec.flags
        THEN FALSE
        ELSE /\ mplen > 0
             /\ Len(ref) >= mplen
             /\ SubSeq(ref, 1, mplen) = rec.virtual_mountpt
             /\ (Len(ref) = mplen \/ ref[mplen + 1] = "/")

\* the call of a match function through its pointer
CallMatchFunc(MatchFunc, ref, idtype, local_id) ==
    IF MatchFunc = "OS_FileSys_FindVirtMountPoint"
    THEN OS_FileSys_FindVirtMountPoint(ref, idtype, local_id)
    ELSE OS_ObjectNameMatch(ref, idtype, local_id)

\* the first active slot that satisfies the predicate, or -1
OS_ObjectIdSearch(idtype, MatchFunc, arg) ==
    LET hits == { s \in Slots : IsActive(idtype, table[idtype][s]) /\ CallMatchFunc(MatchFunc, arg, idtype, s) }
    IN  IF hits = {} THEN -1 ELSE CHOOSE s \in hits : \A o \in hits : s <= o

OS_ObjectIdGetBySearch(lock_mode, idtype, MatchFunc, arg, attempts) ==
    LET s == OS_ObjectIdSearch(idtype, MatchFunc, arg)
    IN  IF s = -1
        THEN [ rc |-> "OS_ERR_NAME_NOT_FOUND", idx |-> 0, tab |-> table[idtype],
               held |-> FALSE, wait |-> FALSE ]
        ELSE OS_ObjectIdConvertLock(lock_mode, idtype, table[idtype][s].active_id, s, attempts)

OS_ObjectIdGetByName(lock_mode, idtype, name, attempts) ==
    OS_ObjectIdGetBySearch(lock_mode, idtype, "OS_ObjectNameMatch", name, attempts)

\* find-by-name retains no lock and returns the id of the record
OS_ObjectIdFindByName(idtype, name) ==
    LET r == OS_ObjectIdGetByName("NONE", idtype, name, 0)
    IN  [ rc |-> r.rc,
          id |-> IF r.rc = "OS_SUCCESS" THEN table[idtype][r.idx].active_id
                 ELSE OS_OBJECT_ID_UNDEFINED ]

OS_ObjectIdFinalizeDelete(operation_status, idtype, local_id) ==
    IF operation_status = "OS_SUCCESS"
    THEN [ rc |-> "OS_SUCCESS",
           tab |-> [table[idtype] EXCEPT ![local_id].active_id = OS_OBJECT_ID_UNDEFINED],
           int |-> [internal[idtype] EXCEPT ![local_id] = ZeroInternal(idtype)],
           held |-> FALSE ]
    ELSE [ rc |-> operation_status, tab |-> table[idtype], int |-> internal[idtype],
           held |-> FALSE ]

\* decrements only a count that is above zero
OS_ObjectIdRefcountDecr(idtype, local_id) ==
    IF table[idtype][local_id].refcount > 0
    THEN [ rc |-> "OS_SUCCESS",
           tab |-> [table[idtype] EXCEPT ![local_id].refcount = @ - 1] ]
    ELSE [ rc |-> "OS_ERR_INCORRECT_OBJ_STATE", tab |-> table[idtype] ]


(***************************************************************************)
(* Inputs of the calls and results of the platform adapter.                *)
(***************************************************************************)
OS_MAX_API_NAME == 20

LongName == [ i \in 1 .. OS_MAX_API_NAME |-> "x" ]
Names == { EmptyStr, << "a" >> }
NameArgs == Names \cup { NullPtr, LongName }
PtrArgs == { "NULL", "ptr" }

AdapterCodes == { "OS_SUCCESS", "OS_ERROR" }

\* the handles a caller may pass: the handles of the type that are live, those
\* it still holds of deleted objects, the undefined id and the reserved sentinel
HandleArgs(idtype) ==
    { table[idtype][s].active_id : s \in Slots }
        \cup { h \in deleted : OS_ObjectIdToType_Impl(h) = idtype }
        \cup { OS_OBJECT_ID_UNDEFINED, OS_OBJECT_ID_RESERVED }

\* the serial numbers issued in the current round of the counters
RECURSIVE SumIssued(_)
SumIssued(S) ==
    IF S = {} THEN 0
    ELSE LET x == CHOOSE y \in S : TRUE
         IN  (last_id_issued[x] % OS_OBJECT_INDEX_MASK) + SumIssued(S \ {x})

\* a create may take place while serial numbers are left for it
SerialsLeft == SumIssued(Types) < MaxIssued

\* strncpy into a zeroed buffer: at most n characters of the source
strncpy(src, n) == IF Len(src) <= n THEN src ELSE SubSeq(src, 1, n)

(***************************************************************************)
(* Steps shared by the wrappers.  A task is between two calls (pc "idle")  *)
(* or inside a call, at the position pc.  The argument checks of a call    *)
(* touch no shared state and are taken together with its first id-manager  *)
(* request.  "result" shows what a call gives back in the step it returns. *)
(***************************************************************************)
Ready(t) == th[t].pc = "idle"

At(t, op, pc) == th[t].op = op /\ th[t].pc = pc

\* what a call gives back: its return code rc, the id "out" and the string "str"
\* written through its output pointers; "id" is the handle it was called with
Done(t, op, id, rc, out, str) ==
    [ task |-> t, op |-> op, id |-> id, ret |-> rc, out |-> out, str |-> str ]

NoResult == Done(0, "none", NoId, "none", NoId, EmptyStr)

\* the call of task t returns
Return(t, d) ==
    /\ th' = [th EXCEPT ![t] = IdleTh]
    /\ result' = d
    /\ UNCHANGED << tvars, xvars >>

\* the call returns rc without having touched the id manager
ReturnEarly(t, op, rc) ==
    /\ Return(t, Done(t, op, NoId, rc, NoId, EmptyStr))
    /\ UNCHANGED << table, internal, last_id_issued, lock, deleted, unlock_errors >>

\* the code a wrapper returns when the id manager has failed with rc: rc itself,
\* or the code the wrapper puts in its place
SameCode == "rc"

FailCode(failrc, rc) == IF failrc = SameCode THEN rc ELSE failrc

\* OS_ObjectIdAllocateNew, then the wrapper's fill-in of the internal record "rec"
\* and of name_entry; on failure the wrapper returns FailCode(failrc, code)
AllocateStep(t, op, idtype, name, rec, outptr, failrc) ==
    /\ LockFree(idtype)
    /\ SerialsLeft
    /\ LET r == OS_ObjectIdAllocateNew(t, idtype, name)
       IN  IF r.rc = "OS_SUCCESS"
           THEN /\ table' = [table EXCEPT ![idtype] =
                                [r.tab EXCEPT ![r.idx].name_entry = "name"]]
                /\ internal' = [internal EXCEPT ![idtype][r.idx] = rec]
                /\ last_id_issued' = [last_id_issued EXCEPT ![idtype] = r.last]
                /\ lock' = IF r.held THEN OS_Lock_Global(lock, t, idtype) ELSE lock
                /\ th' = [th EXCEPT ![t] = [IdleTh EXCEPT !.pc = "Create_Impl", !.op = op,
                                                          !.slot = r.idx, !.arg = outptr]]
                /\ result' = NoResult
                /\ UNCHANGED << deleted, unlock_errors, tvars, xvars >>
           ELSE /\ Return(t, Done(t, op, NoId, FailCode(failrc, r.rc), NoId, name))
                /\ lock' = IF r.held THEN OS_Lock_Global(lock, t, idtype) ELSE lock
                /\ UNCHANGED << table, internal, last_id_issued, deleted, unlock_errors >>

\* OS_ObjectIdFinalizeNew with the status of the wrapper's work; "int" is the
\* internal table as the wrapper leaves it, th[t].arg the caller's id pointer
FinalizeNewStep(t, idtype, status, int) ==
    LET f == OS_ObjectIdFinalizeNew(status, idtype, th[t].slot, int)
    IN  /\ table' = [table EXCEPT ![idtype] = f.tab]
        /\ internal' = [internal EXCEPT ![idtype] = f.int]
        /\ unlock_errors' = unlock_errors + UnlockError(lock, t, idtype)
        /\ lock' = OS_Unlock_Global(lock, t, idtype)
        /\ Return(t, Done(t, th[t].op, NoId, f.rc,
                           IF th[t].arg = << "NULL" >> THEN NoId ELSE f.outid, EmptyStr))
        /\ deleted' = deleted \ { f.outid }
        /\ UNCHANGED last_id_issued

\* the outcome r of a lookup: the type-lock is taken when the lookup gets to the
\* table ("locks") and is kept on return only when r says so; a lookup that has to
\* wait for exclusive access leaves the task at "Retry" with one attempt more
LookupStep(t, op, idtype, locks, r, id, arg, okpc, failrc) ==
    /\ locks => LockFree(idtype)
    /\ table' = [table EXCEPT ![idtype] = r.tab]
    /\ lock' = IF r.held THEN OS_Lock_Global(lock, t, idtype) ELSE lock
    /\ th' = [th EXCEPT ![t] =
                IF r.wait
                THEN [IdleTh EXCEPT !.pc = "Retry", !.op = op, !.id = id, !.arg = arg,
                                    !.attempts = th[t].attempts + 1]
                ELSE IF r.rc = "OS_SUCCESS"
                THEN [IdleTh EXCEPT !.pc = okpc, !.op = op, !.id = id, !.arg = arg,
                                    !.slot = r.idx]
                ELSE IdleTh]
    /\ result' = IF r.wait \/ r.rc = "OS_SUCCESS" THEN NoResult
                 ELSE Done(t, op, id, FailCode(failrc, r.rc), NoId, EmptyStr)
    /\ UNCHANGED << internal, last_id_issued, deleted, unlock_errors, tvars, xvars >>

\* OS_ObjectIdFinalizeDelete with the adapter's status
FinalizeDeleteStep(t, idtype, status) ==
    LET f == OS_ObjectIdFinalizeDelete(status, idtype, th[t].slot)
    IN  /\ table' = [table EXCEPT ![idtype] = f.tab]
        /\ internal' = [internal EXCEPT ![idtype] = f.int]
        /\ unlock_errors' = unlock_errors + UnlockError(lock, t, idtype)
        /\ lock' = OS_Unlock_Global(lock, t, idtype)
        /\ deleted' = IF f.rc = "OS_SUCCESS" THEN deleted \cup { th[t].id } ELSE deleted
        /\ Return(t, Done(t, th[t].op, th[t].id, f.rc, NoId, EmptyStr))
        /\ UNCHANGED last_id_issued

\* the call ends with the return code rc; "unlock" tells whether
\* OS_Unlock_Global is called on this path
FinishStep(t, idtype, rc, unlock) ==
    /\ Return(t, Done(t, th[t].op, th[t].id, rc, NoId, EmptyStr))
    /\ unlock_errors' = unlock_errors + (IF unlock THEN UnlockError(lock, t, idtype) ELSE 0)
    /\ lock' = IF unlock THEN OS_Unlock_Global(lock, t, idtype) ELSE lock
    /\ UNCHANGED << table, internal, last_id_issued, deleted >>


\* the first attempt of a call, or a further one after the sleep of a retry
Attempt(t, op) == Ready(t) \/ At(t, op, "Retry")

(***************************************************************************)
(* Binary semaphores (osapi-binsem.c).                                     *)
(***************************************************************************)
\* OS_BinSemCreate that goes on to the adapter whatever OS_ObjectIdAllocateNew returned
OS_BinSemCreate_Unchecked(t) ==
    \/ /\ Ready(t)
       /\ \E sem_id \in PtrArgs, sem_name \in NameArgs :
            IF sem_id = "NULL" \/ sem_name = NullPtr
            THEN ReturnEarly(t, "OS_BinSemCreate", "OS_INVALID_POINTER")
            ELSE IF StrLen(sem_name) >= OS_MAX_API_NAME
            THEN ReturnEarly(t, "OS_BinSemCreate", "OS_ERR_NAME_TOO_LONG")
            ELSE IF OS_ObjectIdAllocateNew(t, OS_OBJECT_TYPE_OS_BINSEM, sem_name).rc
                      = "OS_SUCCESS"
            THEN AllocateStep(t, "OS_BinSemCreate", OS_OBJECT_TYPE_OS_BINSEM, sem_name,
                              [ name |-> sem_name ], << "ptr" >>, SameCode)
            ELSE /\ LockFree(OS_OBJECT_TYPE_OS_BINSEM)
                 /\ th' = [th EXCEPT ![t] = [IdleTh EXCEPT !.pc = "Create_Impl",
                                                           !.op = "OS_BinSemCreate",
                                                           !.arg = << "ptr" >>]]
                 /\ result' = NoResult
                 /\ UNCHANGED << table, internal, last_id_issued, lock, deleted,
                                 unlock_errors, tvars, xvars >>
    \/ /\ At(t, "OS_BinSemCreate", "Create_Impl")
       /\ \E status \in AdapterCodes :
            FinalizeNewStep(t, OS_OBJECT_TYPE_OS_BINSEM, status,
                            internal[OS_OBJECT_TYPE_OS_BINSEM])

\* OS_BinSemCreate that hands no name to OS_ObjectIdAllocateNew
OS_BinSemCreate_NoName(t) ==
    \/ /\ Ready(t)
       /\ \E sem_id \in PtrArgs, sem_name \in NameArgs :
            IF sem_id = "NULL" \/ sem_name = NullPtr
            THEN ReturnEarly(t, "OS_BinSemCreate", "OS_INVALID_POINTER")
            ELSE IF StrLen(sem_name) >= OS_MAX_API_NAME
            THEN ReturnEarly(t, "OS_BinSemCreate", "OS_ERR_NAME_TOO_LONG")
            ELSE AllocateStep(t, "OS_BinSemCreate", OS_OBJECT_TYPE_OS_BINSEM, EmptyStr,
                              [ name |-> sem_name ], << "ptr" >>, SameCode)
    \/ /\ At(t, "OS_BinSemCreate", "Create_Impl")
       /\ \E status \in AdapterCodes :
            FinalizeNewStep(t, OS_OBJECT_TYPE_OS_BINSEM, status,
                            internal[OS_OBJECT_TYPE_OS_BINSEM])

OS_BinSemCreate(t) ==
    \/ /\ Ready(t)
       /\ \E sem_id \in PtrArgs, sem_name \in NameArgs :
            IF sem_id = "NULL" \/ sem_name = NullPtr
            THEN ReturnEarly(t, "OS_BinSemCreate", "OS_INVALID_POINTER")
            ELSE IF StrLen(sem_name) >= OS_MAX_API_NAME
            THEN ReturnEarly(t, "OS_BinSemCreate", "OS_ERR_NAME_TOO_LONG")
            ELSE AllocateStep(t, "OS_BinSemCreate", OS_OBJECT_TYPE_OS_BINSEM, sem_name,
                              [ name |-> sem_name ], << "ptr" >>, SameCode)
    \/ /\ At(t, "OS_BinSemCreate", "Create_Impl")
       /\ \E status \in AdapterCodes :
            FinalizeNewStep(t, OS_OBJECT_TYPE_OS_BINSEM, status,
                            internal[OS_OBJECT_TYPE_OS_BINSEM])

\* OS_BinSemDelete without its call of OS_ObjectIdFinalizeDelete
OS_BinSemDelete_NoFinalize(t) ==
    \/ /\ Attempt(t, "OS_BinSemDelete")
       /\ \E sem_id \in HandleArgs(OS_OBJECT_TYPE_OS_BINSEM) :
            /\ At(t, "OS_BinSemDelete", "Retry") => sem_id = th[t].id
            /\ LookupStep(t, "OS_BinSemDelete", OS_OBJECT_TYPE_OS_BINSEM,
                          GetByIdLocks(OS_OBJECT_TYPE_OS_BINSEM, sem_id),
                          OS_ObjectIdGetById("EXCLUSIVE", OS_OBJECT_TYPE_OS_BINSEM, sem_id,
                                             th[t].attempts),
                          sem_id, EmptyStr, "Delete_Impl", SameCode)
    \/ /\ At(t, "OS_BinSemDelete", "Delete_Impl")
       /\ \E status \in AdapterCodes :
            /\ Return(t, Done(t, "OS_BinSemDelete", th[t].id, status, NoId, EmptyStr))
            /\ deleted' = IF status = "OS_SUCCESS" THEN deleted \cup { th[t].id } ELSE deleted
            /\ lock' = OS_Unlock_Global(lock, t, OS_OBJECT_TYPE_OS_BINSEM)
            /\ UNCHANGED << table, internal, last_id_issued, unlock_errors >>

OS_BinSemDelete(t) ==
    \/ /\ Attempt(t, "OS_BinSemDelete")
       /\ \E sem_id \in HandleArgs(OS_OBJECT_TYPE_OS_BINSEM) :
            /\ At(t, "OS_BinSemDelete", "Retry") => sem_id = th[t].id
            /\ LookupStep(t, "OS_BinSemDelete", OS_OBJECT_TYPE_OS_BINSEM,
                          GetByIdLocks(OS_OBJECT_TYPE_OS_BINSEM, sem_id),
                          OS_ObjectIdGetById("EXCLUSIVE", OS_OBJECT_TYPE_OS_BINSEM, sem_id,
                                             th[t].attempts),
                          sem_id, EmptyStr, "Delete_Impl", SameCode)
    \/ /\ At(t, "OS_BinSemDelete", "Delete_Impl")
       /\ \E status \in AdapterCodes :
            FinalizeDeleteStep(t, OS_OBJECT_TYPE_OS_BINSEM, status)

\* OS_BinSemTake that keeps the type-lock over the call of the adapter
OS_BinSemTake_Global(t) ==
    \/ /\ Ready(t)
       /\ \E sem_id \in HandleArgs(OS_OBJECT_TYPE_OS_BINSEM) :
            LookupStep(t, "OS_BinSemTake", OS_OBJECT_TYPE_OS_BINSEM,
                       GetByIdLocks(OS_OBJECT_TYPE_OS_BINSEM, sem_id),
                       OS_ObjectIdGetById("GLOBAL", OS_OBJECT_TYPE_OS_BINSEM, sem_id, 0),
                       sem_id, EmptyStr, "Impl", SameCode)
    \/ /\ At(t, "OS_BinSemTake", "Impl")
       /\ \E status \in AdapterCodes :
            FinishStep(t, OS_OBJECT_TYPE_OS_BINSEM, status, TRUE)

OS_BinSemTake(t) ==
    \/ /\ Ready(t)
       /\ \E sem_id \in HandleArgs(OS_OBJECT_TYPE_OS_BINSEM) :
            LookupStep(t, "OS_BinSemTake", OS_OBJECT_TYPE_OS_BINSEM,
                       GetByIdLocks(OS_OBJECT_TYPE_OS_BINSEM, sem_id),
                       OS_ObjectIdGetById("NONE", OS_OBJECT_TYPE_OS_BINSEM, sem_id, 0),
                       sem_id, EmptyStr, "Impl", SameCode)
    \/ /\ At(t, "OS_BinSemTake", "Impl")
       /\ \E status \in AdapterCodes :
            FinishStep(t, OS_OBJECT_TYPE_OS_BINSEM, status, FALSE)

\* OS_BinSemGive that looks its handle up in the table of the queues
OS_BinSemGive_QueueTable(t) ==
    \/ /\ Ready(t)
       /\ \E sem_id \in HandleArgs(OS_OBJECT_TYPE_OS_BINSEM) :
            LookupStep(t, "OS_BinSemGive", OS_OBJECT_TYPE_OS_BINSEM,
                       GetByIdLocks(OS_OBJECT_TYPE_OS_QUEUE, sem_id),
                       OS_ObjectIdGetById("NONE", OS_OBJECT_TYPE_OS_QUEUE, sem_id, 0),
                       sem_id, EmptyStr, "Impl", SameCode)
    \/ /\ At(t, "OS_BinSemGive", "Impl")
       /\ \E status \in AdapterCodes :
            FinishStep(t, OS_OBJECT_TYPE_OS_BINSEM, status, FALSE)

OS_BinSemGive(t) ==
    \/ /\ Ready(t)
       /\ \E sem_id \in HandleArgs(OS_OBJECT_TYPE_OS_BINSEM) :
            LookupStep(t, "OS_BinSemGive", OS_OBJECT_TYPE_OS_BINSEM,
                       GetByIdLocks(OS_OBJECT_TYPE_OS_BINSEM, sem_id),
                       OS_ObjectIdGetById("NONE", OS_OBJECT_TYPE_OS_BINSEM, sem_id, 0),
                       sem_id, EmptyStr, "Impl", SameCode)
    \/ /\ At(t, "OS_BinSemGive", "Impl")
       /\ \E status \in AdapterCodes :
            FinishStep(t, OS_OBJECT_TYPE_OS_BINSEM, status, FALSE)

\* the adapter of VxWorks has nothing to add to the properties
OS_BinSemGetInfo_Impl == "OS_SUCCESS"

\* the name and the creator of the record at local_id, as a GetInfo copies them
\* to the caller's structure: strncpy(prop->name, record->name_entry, ...)
InfoName(idtype, local_id) ==
    IF table[idtype][local_id].name_entry = "NULL" THEN EmptyStr
    ELSE strncpy(internal[idtype][local_id].name, OS_MAX_API_NAME - 1)

InfoStep(t, idtype, rc) ==
    /\ Return(t, Done(t, th[t].op, th[t].id, rc, table[idtype][th[t].slot].creator,
                      InfoName(idtype, th[t].slot)))
    /\ unlock_errors' = unlock_errors + UnlockError(lock, t, idtype)
    /\ lock' = OS_Unlock_Global(lock, t, idtype)
    /\ UNCHANGED << table, internal, last_id_issued, deleted >>

\* OS_BinSemGetInfo that resolves its handle without keeping the type-lock
OS_BinSemGetInfo_NoLock(t) ==
    \/ /\ Ready(t)
       /\ \E sem_id \in HandleArgs(OS_OBJECT_TYPE_OS_BINSEM), bin_prop \in PtrArgs :
            IF bin_prop = "NULL"
            THEN ReturnEarly(t, "OS_BinSemGetInfo", "OS_INVALID_POINTER")
            ELSE LookupStep(t, "OS_BinSemGetInfo", OS_OBJECT_TYPE_OS_BINSEM,
                            GetByIdLocks(OS_OBJECT_TYPE_OS_BINSEM, sem_id),
                            OS_ObjectIdGetById("NONE", OS_OBJECT_TYPE_OS_BINSEM, sem_id, 0),
                            sem_id, EmptyStr, "Locked", SameCode)
    \/ /\ At(t, "OS_BinSemGetInfo", "Locked")
       /\ InfoStep(t, OS_OBJECT_TYPE_OS_BINSEM, OS_BinSemGetInfo_Impl)

OS_BinSemGetInfo(t) ==
    \/ /\ Ready(t)
       /\ \E sem_id \in HandleArgs(OS_OBJECT_TYPE_OS_BINSEM), bin_prop \in PtrArgs :
            IF bin_prop = "NULL"
            THEN ReturnEarly(t, "OS_BinSemGetInfo", "OS_INVALID_POINTER")
            ELSE LookupStep(t, "OS_BinSemGetInfo", OS_OBJECT_TYPE_OS_BINSEM,
                            GetByIdLocks(OS_OBJECT_TYPE_OS_BINSEM, sem_id),
                            OS_ObjectIdGetById("GLOBAL", OS_OBJECT_TYPE_OS_BINSEM, sem_id, 0),
                            sem_id, EmptyStr, "Locked", SameCode)
    \/ /\ At(t, "OS_BinSemGetInfo", "Locked")
       /\ InfoStep(t, OS_OBJECT_TYPE_OS_BINSEM, OS_BinSemGetInfo_Impl)

\* OS_BinSemGetIdByName
OS_BinSemGetIdByName(t) ==
    /\ Ready(t)
    /\ \E sem_id \in PtrArgs, sem_name \in NameArgs :
         IF sem_id = "NULL" \/ sem_name = NullPtr
         THEN ReturnEarly(t, "OS_BinSemGetIdByName", "OS_INVALID_POINTER")
         ELSE /\ LockFree(OS_OBJECT_TYPE_OS_BINSEM)
              /\ LET r == OS_ObjectIdFindByName(OS_OBJECT_TYPE_OS_BINSEM, sem_name)
                 IN  Return(t, Done(t, "OS_BinSemGetIdByName", NoId, r.rc, r.id, sem_name))
              /\ UNCHANGED << table, internal, last_id_issued, lock, deleted, unlock_errors >>

(***************************************************************************)
(* Queues (osapi-queue.c).                                                 *)
(***************************************************************************)
OS_QUEUE_MAX_DEPTH == 50

QueueDepthArgs == { 4, OS_QUEUE_MAX_DEPTH + 1 }
QueueSizeArgs == { 8 }

\* OS_QueueCreate without the test of the depth
OS_QueueCreate_AnyDepth(t) ==
    \/ /\ Ready(t)
       /\ \E queue_id \in PtrArgs, queue_name \in NameArgs,
             queue_depth \in QueueDepthArgs, data_size \in QueueSizeArgs :
            IF queue_name = NullPtr \/ queue_id = "NULL"
            THEN ReturnEarly(t, "OS_QueueCreate", "OS_INVALID_POINTER")
            ELSE IF StrLen(queue_name) >= OS_MAX_API_NAME
            THEN ReturnEarly(t, "OS_QueueCreate", "OS_ERR_NAME_TOO_LONG")
            ELSE AllocateStep(t, "OS_QueueCreate", OS_OBJECT_TYPE_OS_QUEUE, queue_name,
                              [ name |-> queue_name, max_depth |-> queue_depth,
                                max_size |-> data_size, msgs |-> << >> ],
                              << "ptr" >>, SameCode)
    \/ /\ At(t, "OS_QueueCreate", "Create_Impl")
       /\ \E status \in AdapterCodes :
            FinalizeNewStep(t, OS_OBJECT_TYPE_OS_QUEUE, status,
                            internal[OS_OBJECT_TYPE_OS_QUEUE])

\* OS_QueueCreate that returns the adapter's error at once
OS_QueueCreate_EarlyReturn(t) ==
    \/ /\ Ready(t)
       /\ \E queue_id \in PtrArgs, queue_name \in NameArgs,
             queue_depth \in QueueDepthArgs, data_size \in QueueSizeArgs :
            IF queue_name = NullPtr \/ queue_id = "NULL"
            THEN ReturnEarly(t, "OS_QueueCreate", "OS_INVALID_POINTER")
            ELSE IF StrLen(queue_name) >= OS_MAX_API_NAME
            THEN ReturnEarly(t, "OS_QueueCreate", "OS_ERR_NAME_TOO_LONG")
            ELSE IF queue_depth > OS_QUEUE_MAX_DEPTH
            THEN ReturnEarly(t, "OS_QueueCreate", "OS_QUEUE_INVALID_SIZE")
            ELSE AllocateStep(t, "OS_QueueCreate", OS_OBJECT_TYPE_OS_QUEUE, queue_name,
                              [ name |-> queue_name, max_depth |-> queue_depth,
                                max_size |-> data_size, msgs |-> << >> ],
                              << "ptr" >>, SameCode)
    \/ /\ At(t, "OS_QueueCreate", "Create_Impl")
       /\ \E status \in AdapterCodes :
            IF status = "OS_SUCCESS"
            THEN FinalizeNewStep(t, OS_OBJECT_TYPE_OS_QUEUE, status,
                                 internal[OS_OBJECT_TYPE_OS_QUEUE])
            ELSE /\ Return(t, Done(t, "OS_QueueCreate", NoId, status, NoId, EmptyStr))
                 /\ UNCHANGED << table, internal, last_id_issued, lock, deleted,
                                 unlock_errors >>

OS_QueueCreate(t) ==
    \/ /\ Ready(t)
       /\ \E queue_id \in PtrArgs, queue_name \in NameArgs,
             queue_depth \in QueueDepthArgs, data_size \in QueueSizeArgs :
            IF queue_name = NullPtr \/ queue_id = "NULL"
            THEN ReturnEarly(t, "OS_QueueCreate", "OS_INVALID_POINTER")
            ELSE IF StrLen(queue_name) >= OS_MAX_API_NAME
            THEN ReturnEarly(t, "OS_QueueCreate", "OS_ERR_NAME_TOO_LONG")
            ELSE IF queue_depth > OS_QUEUE_MAX_DEPTH
            THEN ReturnEarly(t, "OS_QueueCreate", "OS_QUEUE_INVALID_SIZE")
            ELSE AllocateStep(t, "OS_QueueCreate", OS_OBJECT_TYPE_OS_QUEUE, queue_name,
                              [ name |-> queue_name, max_depth |-> queue_depth,
                                max_size |-> data_size, msgs |-> << >> ],
                              << "ptr" >>, SameCode)
    \/ /\ At(t, "OS_QueueCreate", "Create_Impl")
       /\ \E status \in AdapterCodes :
            FinalizeNewStep(t, OS_OBJECT_TYPE_OS_QUEUE, status,
                            internal[OS_OBJECT_TYPE_OS_QUEUE])

\* OS_QueueDelete that looks the queue up in GLOBAL mode
OS_QueueDelete_Global(t) ==
    \/ /\ Attempt(t, "OS_QueueDelete")
       /\ \E queue_id \in HandleArgs(OS_OBJECT_TYPE_OS_QUEUE) :
            /\ At(t, "OS_QueueDelete", "Retry") => queue_id = th[t].id
            /\ LookupStep(t, "OS_QueueDelete", OS_OBJECT_TYPE_OS_QUEUE,
                          GetByIdLocks(OS_OBJECT_TYPE_OS_QUEUE, queue_id),
                          OS_ObjectIdGetById("GLOBAL", OS_OBJECT_TYPE_OS_QUEUE, queue_id,
                                             th[t].attempts),
                          queue_id, EmptyStr, "Delete_Impl", SameCode)
    \/ /\ At(t, "OS_QueueDelete", "Delete_Impl")
       /\ \E status \in AdapterCodes :
            FinalizeDeleteStep(t, OS_OBJECT_TYPE_OS_QUEUE, status)

OS_QueueDelete(t) ==
    \/ /\ Attempt(t, "OS_QueueDelete")
       /\ \E queue_id \in HandleArgs(OS_OBJECT_TYPE_OS_QUEUE) :
            /\ At(t, "OS_QueueDelete", "Retry") => queue_id = th[t].id
            /\ LookupStep(t, "OS_QueueDelete", OS_OBJECT_TYPE_OS_QUEUE,
                          GetByIdLocks(OS_OBJECT_TYPE_OS_QUEUE, queue_id),
                          OS_ObjectIdGetById("EXCLUSIVE", OS_OBJECT_TYPE_OS_QUEUE, queue_id,
                                             th[t].attempts),
                          queue_id, EmptyStr, "Delete_Impl", SameCode)
    \/ /\ At(t, "OS_QueueDelete", "Delete_Impl")
       /\ \E status \in AdapterCodes :
            FinalizeDeleteStep(t, OS_OBJECT_TYPE_OS_QUEUE, status)

\* OS_QueueGetInfo: the impl layer adds nothing
OS_QueueGetInfo(t) ==
    \/ /\ Ready(t)
       /\ \E queue_id \in HandleArgs(OS_OBJECT_TYPE_OS_QUEUE), queue_prop \in PtrArgs :
            IF queue_prop = "NULL"
            THEN ReturnEarly(t, "OS_QueueGetInfo", "OS_INVALID_POINTER")
            ELSE LookupStep(t, "OS_QueueGetInfo", OS_OBJECT_TYPE_OS_QUEUE,
                            GetByIdLocks(OS_OBJECT_TYPE_OS_QUEUE, queue_id),
                            OS_ObjectIdGetById("GLOBAL", OS_OBJECT_TYPE_OS_QUEUE, queue_id, 0),
                            queue_id, EmptyStr, "Locked", SameCode)
    \/ /\ At(t, "OS_QueueGetInfo", "Locked")
       /\ InfoStep(t, OS_OBJECT_TYPE_OS_QUEUE, "OS_SUCCESS")

(***************************************************************************)
(* Messages (osapi-queue.c).  The queue of the adapter is kept with the    *)
(* internal record, in "msgs": a message is its size and its bytes.        *)
(***************************************************************************)
MaxDepth == 2   \* the depth of the queue that messages are put to

PutSizes == { 4, 8, 9 }
GetSizes == { 0, 4, 8, 16 }
MsgData == { "x", "y" }

\* a uint32 below 2^16, as the two halves of its value
U32(n) == << 0, n >>

Min(a, b) == IF a < b THEN a ELSE b

\* OS_QueuePut_Impl: the adapter takes a message that fits while there is room
OS_QueuePut_Impl(q, data, size) ==
    IF size > q.max_size THEN [ rc |-> "OS_QUEUE_INVALID_SIZE", q |-> q ]
    ELSE IF Len(q.msgs) >= q.max_depth THEN [ rc |-> "OS_QUEUE_FULL", q |-> q ]
    ELSE [ rc |-> "OS_SUCCESS",
           q |-> [q EXCEPT !.msgs = Append(@, [ size |-> size, data |-> data ])] ]

\* OS_QueueGet_Impl: the adapter gives the oldest message, as much of it as the
\* buffer of "size" bytes takes
OS_QueueGet_Impl(q, size) ==
    IF q.msgs = << >>
    THEN [ rc |-> "OS_QUEUE_EMPTY", q |-> q, size_copied |-> NoId, data |-> EmptyStr ]
    ELSE LET m == Head(q.msgs)
         IN  [ rc |-> "OS_SUCCESS", q |-> [q EXCEPT !.msgs = Tail(@)],
               size_copied |-> U32(Min(size, m.size)),
               data |-> IF size >= m.size THEN << m.data >> ELSE << "part", m.data >> ]

OS_QueuePut(t) ==
    \/ /\ Ready(t)
       /\ \E queue_id \in HandleArgs(OS_OBJECT_TYPE_OS_QUEUE),
             data \in MsgData \cup { "NULL" }, size \in PutSizes :
            IF data = "NULL"
            THEN ReturnEarly(t, "OS_QueuePut", "OS_INVALID_POINTER")
            ELSE LookupStep(t, "OS_QueuePut", OS_OBJECT_TYPE_OS_QUEUE,
                            GetByIdLocks(OS_OBJECT_TYPE_OS_QUEUE, queue_id),
                            OS_ObjectIdGetById("NONE", OS_OBJECT_TYPE_OS_QUEUE, queue_id, 0),
                            queue_id, << data, size >>, "Impl", SameCode)
    \/ /\ At(t, "OS_QueuePut", "Impl")
       /\ LET r == OS_QueuePut_Impl(internal[OS_OBJECT_TYPE_OS_QUEUE][th[t].slot],
                                    th[t].arg[1], th[t].arg[2])
          IN  /\ internal' = [internal EXCEPT ![OS_OBJECT_TYPE_OS_QUEUE][th[t].slot] = r.q]
              /\ Return(t, Done(t, "OS_QueuePut", th[t].id, r.rc, NoId, EmptyStr))
       /\ UNCHANGED << table, last_id_issued, lock, deleted, unlock_errors >>

\* OS_QueueGet that passes every buffer on to the adapter
OS_QueueGet_NoSizeCheck(t) ==
    \/ /\ Ready(t)
       /\ \E queue_id \in HandleArgs(OS_OBJECT_TYPE_OS_QUEUE), data \in PtrArgs,
             size \in GetSizes, size_copied \in PtrArgs :
            IF data = "NULL" \/ size_copied = "NULL"
            THEN ReturnEarly(t, "OS_QueueGet", "OS_INVALID_POINTER")
            ELSE LookupStep(t, "OS_QueueGet", OS_OBJECT_TYPE_OS_QUEUE,
                            GetByIdLocks(OS_OBJECT_TYPE_OS_QUEUE, queue_id),
                            OS_ObjectIdGetById("NONE", OS_OBJECT_TYPE_OS_QUEUE, queue_id, 0),
                            queue_id, << size >>, "Size", SameCode)
    \/ /\ At(t, "OS_QueueGet", "Size")
       /\ LET q == internal[OS_OBJECT_TYPE_OS_QUEUE][th[t].slot]
              size == th[t].arg[1]
              r == OS_QueueGet_Impl(q, size)
          IN  /\ internal' = [internal EXCEPT ![OS_OBJECT_TYPE_OS_QUEUE][th[t].slot] = r.q]
              /\ Return(t, Done(t, "OS_QueueGet", th[t].id, r.rc, r.size_copied, r.data))
       /\ UNCHANGED << table, last_id_issued, lock, deleted, unlock_errors >>

\* OS_QueueGet: the pointers, the lookup, then the size of the buffer against
\* max_size and the adapter; "out" is what is written to size_copied, "str"
\* what is written to the buffer
OS_QueueGet(t) ==
    \/ /\ Ready(t)
       /\ \E queue_id \in HandleArgs(OS_OBJECT_TYPE_OS_QUEUE), data \in PtrArgs,
             size \in GetSizes, size_copied \in PtrArgs :
            IF data = "NULL" \/ size_copied = "NULL"
            THEN ReturnEarly(t, "OS_QueueGet", "OS_INVALID_POINTER")
            ELSE LookupStep(t, "OS_QueueGet", OS_OBJECT_TYPE_OS_QUEUE,
                            GetByIdLocks(OS_OBJECT_TYPE_OS_QUEUE, queue_id),
                            OS_ObjectIdGetById("NONE", OS_OBJECT_TYPE_OS_QUEUE, queue_id, 0),
                            queue_id, << size >>, "Size", SameCode)
    \/ /\ At(t, "OS_QueueGet", "Size")
       /\ LET q == internal[OS_OBJECT_TYPE_OS_QUEUE][th[t].slot]
              size == th[t].arg[1]
              r == OS_QueueGet_Impl(q, size)
          IN  IF size < q.max_size
              THEN /\ Return(t, Done(t, "OS_QueueGet", th[t].id, "OS_QUEUE_INVALID_SIZE",
                                     U32(0), EmptyStr))
                   /\ UNCHANGED internal
              ELSE /\ internal' = [internal EXCEPT
                                     ![OS_OBJECT_TYPE_OS_QUEUE][th[t].slot] = r.q]
                   /\ Return(t, Done(t, "OS_QueueGet", th[t].id, r.rc, r.size_copied, r.data))
       /\ UNCHANGED << table, last_id_issued, lock, deleted, unlock_errors >>

(***************************************************************************)
(* A user of the REFCOUNT lock mode: OS_ObjectIdGetById(REFCOUNT) on a     *)
(* queue, the work done while the reference is held, and                   *)
(* OS_ObjectIdRefcountDecr.                                                *)
(***************************************************************************)
RefcountDecrStep(t, idtype) ==
    /\ LockFree(idtype)
    /\ table' = [table EXCEPT ![idtype] = OS_ObjectIdRefcountDecr(idtype, th[t].slot).tab]
    /\ UNCHANGED << internal, last_id_issued, lock, deleted, unlock_errors >>

RefcountHolder(t) ==
    \/ /\ Ready(t)
       /\ \E id \in HandleArgs(OS_OBJECT_TYPE_OS_QUEUE) :
            LookupStep(t, "RefcountHolder", OS_OBJECT_TYPE_OS_QUEUE,
                       GetByIdLocks(OS_OBJECT_TYPE_OS_QUEUE, id),
                       OS_ObjectIdGetById("REFCOUNT", OS_OBJECT_TYPE_OS_QUEUE, id, 0),
                       id, EmptyStr, "Ref", SameCode)
    \/ /\ At(t, "RefcountHolder", "Ref")
       /\ RefcountDecrStep(t, OS_OBJECT_TYPE_OS_QUEUE)
       /\ Return(t, Done(t, "RefcountHolder", th[t].id, "OS_SUCCESS", NoId, EmptyStr))

(***************************************************************************)
(* Time bases (osapi-timebase.c), the calls of application tasks.          *)
(***************************************************************************)
OS_SharedGlobalVars_MicroSecPerTick == 1000
TIMER_ARG_LIMIT == 1000000000

SyncArgs == { "NULL" }
TimeArgs == { 1000, TIMER_ARG_LIMIT }

\* the timer API may not be used by a task whose id has the type of a time base
InTimebaseContext(t) ==
    OS_ObjectIdToType_Impl(OS_TaskGetId_Impl(t)) = OS_OBJECT_TYPE_OS_TIMEBASE

\* OS_TimeBaseCreate that gives the type-lock up before it calls the adapter
OS_TimeBaseCreate_Unlocked(t) ==
    \/ /\ Ready(t)
       /\ \E timer_id \in PtrArgs, timebase_name \in NameArgs, external_sync \in SyncArgs :
            IF timer_id = "NULL" \/ timebase_name = NullPtr
            THEN ReturnEarly(t, "OS_TimeBaseCreate", "OS_INVALID_POINTER")
            ELSE IF StrLen(timebase_name) >= OS_MAX_API_NAME
            THEN ReturnEarly(t, "OS_TimeBaseCreate", "OS_ERR_NAME_TOO_LONG")
            ELSE IF InTimebaseContext(t)
            THEN ReturnEarly(t, "OS_TimeBaseCreate", "OS_ERR_INCORRECT_OBJ_STATE")
            ELSE LET r == OS_ObjectIdAllocateNew(t, OS_OBJECT_TYPE_OS_TIMEBASE, timebase_name)
                 IN  /\ LockFree(OS_OBJECT_TYPE_OS_TIMEBASE)
                     /\ SerialsLeft
                     /\ r.rc = "OS_SUCCESS"
                     /\ table' = [table EXCEPT ![OS_OBJECT_TYPE_OS_TIMEBASE] =
                                     [r.tab EXCEPT ![r.idx].name_entry = "name"]]
                     /\ internal' = [internal EXCEPT
                                       ![OS_OBJECT_TYPE_OS_TIMEBASE][r.idx].name =
                                           timebase_name]
                     /\ last_id_issued' = [last_id_issued EXCEPT
                                             ![OS_OBJECT_TYPE_OS_TIMEBASE] = r.last]
                     /\ th' = [th EXCEPT ![t] = [IdleTh EXCEPT !.pc = "Create_Impl",
                                                               !.op = "OS_TimeBaseCreate",
                                                               !.slot = r.idx,
                                                               !.arg = << "ptr" >>]]
                     /\ result' = NoResult
                     /\ UNCHANGED << lock, deleted, unlock_errors, tvars, xvars >>
    \/ /\ At(t, "OS_TimeBaseCreate", "Create_Impl")
       /\ \E status \in AdapterCodes :
            FinalizeNewStep(t, OS_OBJECT_TYPE_OS_TIMEBASE, status,
                            internal[OS_OBJECT_TYPE_OS_TIMEBASE])

OS_TimeBaseCreate(t) ==
    \/ /\ Ready(t)
       /\ \E timer_id \in PtrArgs, timebase_name \in NameArgs, external_sync \in SyncArgs :
            IF timer_id = "NULL" \/ timebase_name = NullPtr
            THEN ReturnEarly(t, "OS_TimeBaseCreate", "OS_INVALID_POINTER")
            ELSE IF StrLen(timebase_name) >= OS_MAX_API_NAME
            THEN ReturnEarly(t, "OS_TimeBaseCreate", "OS_ERR_NAME_TOO_LONG")
            ELSE IF InTimebaseContext(t)
            THEN ReturnEarly(t, "OS_TimeBaseCreate", "OS_ERR_INCORRECT_OBJ_STATE")
            ELSE AllocateStep(t, "OS_TimeBaseCreate", OS_OBJECT_TYPE_OS_TIMEBASE,
                              timebase_name,
                              [ ZeroInternal(OS_OBJECT_TYPE_OS_TIMEBASE) EXCEPT
                                  !.name = strncpy(timebase_name, OS_MAX_API_NAME - 1),
                                  !.external_sync = external_sync,
                                  !.accuracy_usec =
                                      IF external_sync = "NULL"
                                      THEN OS_SharedGlobalVars_MicroSecPerTick ELSE 0 ],
                              << "ptr" >>, SameCode)
    \/ /\ At(t, "OS_TimeBaseCreate", "Create_Impl")
       /\ \E status \in AdapterCodes :
            FinalizeNewStep(t, OS_OBJECT_TYPE_OS_TIMEBASE, status,
                            internal[OS_OBJECT_TYPE_OS_TIMEBASE])

\* OS_TimeBaseSet that returns the adapter's error without OS_Unlock_Global
OS_TimeBaseSet_NoUnlock(t) ==
    \/ /\ Ready(t)
       /\ \E timer_id \in HandleArgs(OS_OBJECT_TYPE_OS_TIMEBASE),
             start_time \in TimeArgs, interval_time \in TimeArgs :
            IF interval_time >= TIMER_ARG_LIMIT \/ start_time >= TIMER_ARG_LIMIT
            THEN ReturnEarly(t, "OS_TimeBaseSet", "OS_TIMER_ERR_INVALID_ARGS")
            ELSE IF InTimebaseContext(t)
            THEN ReturnEarly(t, "OS_TimeBaseSet", "OS_ERR_INCORRECT_OBJ_STATE")
            ELSE LookupStep(t, "OS_TimeBaseSet", OS_OBJECT_TYPE_OS_TIMEBASE,
                            GetByIdLocks(OS_OBJECT_TYPE_OS_TIMEBASE, timer_id),
                            OS_ObjectIdGetById("GLOBAL", OS_OBJECT_TYPE_OS_TIMEBASE,
                                               timer_id, 0),
                            timer_id, << start_time, interval_time >>, "Locked", SameCode)
    \/ /\ At(t, "OS_TimeBaseSet", "Locked")
       /\ \E status \in AdapterCodes :
            /\ internal' = [internal EXCEPT ![OS_OBJECT_TYPE_OS_TIMEBASE][th[t].slot] =
                              IF status = "OS_SUCCESS"
                              THEN [@ EXCEPT !.nominal_start_time = th[t].arg[1],
                                             !.nominal_interval_time = th[t].arg[2]]
                              ELSE @]
            /\ Return(t, Done(t, "OS_TimeBaseSet", th[t].id, status, NoId, EmptyStr))
            /\ unlock_errors' = unlock_errors
                                  + (IF status = "OS_SUCCESS"
                                     THEN UnlockError(lock, t, OS_OBJECT_TYPE_OS_TIMEBASE)
                                     ELSE 0)
            /\ lock' = IF status = "OS_SUCCESS"
                       THEN OS_Unlock_Global(lock, t, OS_OBJECT_TYPE_OS_TIMEBASE) ELSE lock
            /\ UNCHANGED << table, last_id_issued, deleted >>

\* the servicing task holds the lock of the time base at local_id: it is in a
\* callback of one of its timers
TimeBaseLockFree(local_id) == ~(svc.pc = "callback" /\ svc.local_id = local_id)

OS_TimeBaseSet(t) ==
    \/ /\ Ready(t)
       /\ \E timer_id \in HandleArgs(OS_OBJECT_TYPE_OS_TIMEBASE),
             start_time \in TimeArgs, interval_time \in TimeArgs :
            IF interval_time >= TIMER_ARG_LIMIT \/ start_time >= TIMER_ARG_LIMIT
            THEN ReturnEarly(t, "OS_TimeBaseSet", "OS_TIMER_ERR_INVALID_ARGS")
            ELSE IF InTimebaseContext(t)
            THEN ReturnEarly(t, "OS_TimeBaseSet", "OS_ERR_INCORRECT_OBJ_STATE")
            ELSE LookupStep(t, "OS_TimeBaseSet", OS_OBJECT_TYPE_OS_TIMEBASE,
                            GetByIdLocks(OS_OBJECT_TYPE_OS_TIMEBASE, timer_id),
                            OS_ObjectIdGetById("GLOBAL", OS_OBJECT_TYPE_OS_TIMEBASE,
                                               timer_id, 0),
                            timer_id, << start_time, interval_time >>, "Locked", SameCode)
    \/ /\ At(t, "OS_TimeBaseSet", "Locked")
       /\ TimeBaseLockFree(th[t].slot)
       /\ \E status \in AdapterCodes :
            /\ internal' = [internal EXCEPT ![OS_OBJECT_TYPE_OS_TIMEBASE][th[t].slot] =
                              IF status = "OS_SUCCESS"
                              THEN [@ EXCEPT !.nominal_start_time = th[t].arg[1],
                                             !.nominal_interval_time = th[t].arg[2]]
                              ELSE @]
            /\ Return(t, Done(t, "OS_TimeBaseSet", th[t].id, status, NoId, EmptyStr))
            /\ unlock_errors' = unlock_errors
                                  + UnlockError(lock, t, OS_OBJECT_TYPE_OS_TIMEBASE)
            /\ lock' = OS_Unlock_Global(lock, t, OS_OBJECT_TYPE_OS_TIMEBASE)
            /\ UNCHANGED << table, last_id_issued, deleted >>

\* OS_TimeBaseDelete without the check of the caller's context
OS_TimeBaseDelete_AnyContext(t) ==
    \/ /\ Attempt(t, "OS_TimeBaseDelete")
       /\ \E timer_id \in HandleArgs(OS_OBJECT_TYPE_OS_TIMEBASE) :
            /\ At(t, "OS_TimeBaseDelete", "Retry") => timer_id = th[t].id
            /\ LookupStep(t, "OS_TimeBaseDelete", OS_OBJECT_TYPE_OS_TIMEBASE,
                          GetByIdLocks(OS_OBJECT_TYPE_OS_TIMEBASE, timer_id),
                          OS_ObjectIdGetById("EXCLUSIVE", OS_OBJECT_TYPE_OS_TIMEBASE,
                                             timer_id, th[t].attempts),
                          timer_id, EmptyStr, "Delete_Impl", SameCode)
    \/ /\ At(t, "OS_TimeBaseDelete", "Delete_Impl")
       /\ \E status \in AdapterCodes :
            FinalizeDeleteStep(t, OS_OBJECT_TYPE_OS_TIMEBASE, status)

OS_TimeBaseDelete(t) ==
    \/ /\ Attempt(t, "OS_TimeBaseDelete")
       /\ \E timer_id \in HandleArgs(OS_OBJECT_TYPE_OS_TIMEBASE) :
            /\ At(t, "OS_TimeBaseDelete", "Retry") => timer_id = th[t].id
            /\ IF InTimebaseContext(t)
               THEN ReturnEarly(t, "OS_TimeBaseDelete", "OS_ERR_INCORRECT_OBJ_STATE")
               ELSE LookupStep(t, "OS_TimeBaseDelete", OS_OBJECT_TYPE_OS_TIMEBASE,
                               GetByIdLocks(OS_OBJECT_TYPE_OS_TIMEBASE, timer_id),
                               OS_ObjectIdGetById("EXCLUSIVE", OS_OBJECT_TYPE_OS_TIMEBASE,
                                                  timer_id, th[t].attempts),
                               timer_id, EmptyStr, "Delete_Impl", SameCode)
    \/ /\ At(t, "OS_TimeBaseDelete", "Delete_Impl")
       /\ \E status \in AdapterCodes :
            FinalizeDeleteStep(t, OS_OBJECT_TYPE_OS_TIMEBASE, status)

OS_TimeBaseGetIdByName(t) ==
    /\ Ready(t)
    /\ \E timer_id \in PtrArgs, timebase_name \in NameArgs :
         IF timer_id = "NULL" \/ timebase_name = NullPtr
         THEN ReturnEarly(t, "OS_TimeBaseGetIdByName", "OS_INVALID_POINTER")
         ELSE IF InTimebaseContext(t)
         THEN ReturnEarly(t, "OS_TimeBaseGetIdByName", "OS_ERR_INCORRECT_OBJ_STATE")
         ELSE /\ LockFree(OS_OBJECT_TYPE_OS_TIMEBASE)
              /\ LET r == OS_ObjectIdFindByName(OS_OBJECT_TYPE_OS_TIMEBASE, timebase_name)
                 IN  Return(t, Done(t, "OS_TimeBaseGetIdByName", NoId, r.rc, r.id, timebase_name))
              /\ UNCHANGED << table, internal, last_id_issued, lock, deleted, unlock_errors >>

OS_TimeBaseGetInfo(t) ==
    \/ /\ Ready(t)
       /\ \E timebase_id \in HandleArgs(OS_OBJECT_TYPE_OS_TIMEBASE), timebase_prop \in PtrArgs :
            IF timebase_prop = "NULL"
            THEN ReturnEarly(t, "OS_TimeBaseGetInfo", "OS_INVALID_POINTER")
            ELSE IF InTimebaseContext(t)
            THEN ReturnEarly(t, "OS_TimeBaseGetInfo", "OS_ERR_INCORRECT_OBJ_STATE")
            ELSE LookupStep(t, "OS_TimeBaseGetInfo", OS_OBJECT_TYPE_OS_TIMEBASE,
                            GetByIdLocks(OS_OBJECT_TYPE_OS_TIMEBASE, timebase_id),
                            OS_ObjectIdGetById("GLOBAL", OS_OBJECT_TYPE_OS_TIMEBASE,
                                               timebase_id, 0),
                            timebase_id, EmptyStr, "Locked", SameCode)
    \/ /\ At(t, "OS_TimeBaseGetInfo", "Locked")
       /\ \E status \in AdapterCodes :
            FinishStep(t, OS_OBJECT_TYPE_OS_TIMEBASE, status, TRUE)

\* OS_TimeBaseGetFreeRun: a lookup in NONE mode, then a read of the internal record
OS_TimeBaseGetFreeRun(t) ==
    \/ /\ Ready(t)
       /\ \E timebase_id \in HandleArgs(OS_OBJECT_TYPE_OS_TIMEBASE) :
            LookupStep(t, "OS_TimeBaseGetFreeRun", OS_OBJECT_TYPE_OS_TIMEBASE,
                       GetByIdLocks(OS_OBJECT_TYPE_OS_TIMEBASE, timebase_id),
                       OS_ObjectIdGetById("NONE", OS_OBJECT_TYPE_OS_TIMEBASE, timebase_id, 0),
                       timebase_id, EmptyStr, "Read", SameCode)
    \/ /\ At(t, "OS_TimeBaseGetFreeRun", "Read")
       /\ Return(t, Done(t, "OS_TimeBaseGetFreeRun", th[t].id, "OS_SUCCESS",
                         internal[OS_OBJECT_TYPE_OS_TIMEBASE][th[t].slot].freerun_time,
                         EmptyStr))
       /\ UNCHANGED << table, internal, last_id_issued, lock, deleted, unlock_errors >>

(***************************************************************************)
(* File systems (osapi-filesys.c).  Paths are sequences of characters.     *)
(***************************************************************************)
OS_MAX_PATH_LEN == 8
OS_MAX_LOCAL_PATH_LEN == 8
OS_MAX_FILE_NAME == 4
OS_FS_DEV_NAME_LEN == 4
OS_FS_PHYS_NAME_LEN == 8

LongPath == [ i \in 1 .. OS_MAX_PATH_LEN |-> IF i = 1 THEN "/" ELSE "x" ]
PhysPathArgs == { NullPtr, << "/", "p" >> }
VirtPathArgs == { NullPtr, << "/", "m" >> }
PathArgs == { NullPtr, << "/", "m" >>, << "/", "m", "/", "f" >>, << "/", "n" >>, LongPath }
DevNameArgs == { NullPtr, << "p" >>, LongName }

\* strrchr(str, ch): the position of the last ch in str, 0 when there is none
strrchr(str, ch) ==
    LET at == { i \in 1 .. Len(str) : str[i] = ch }
    IN  IF at = {} THEN 0 ELSE CHOOSE i \in at : \A j \in at : j <= i

\* the part of str from position i + 1 on
StrFrom(str, i) == SubSeq(str, i + 1, Len(str))


OS_FileSysAddFixedMap(t) ==
    \/ /\ Ready(t)
       /\ \E filesys_id \in PtrArgs, phys_path \in PhysPathArgs, virt_path \in VirtPathArgs :
            IF phys_path = NullPtr \/ virt_path = NullPtr
            THEN ReturnEarly(t, "OS_FileSysAddFixedMap", "OS_INVALID_POINTER")
            ELSE IF StrLen(phys_path) >= OS_MAX_LOCAL_PATH_LEN
                    \/ StrLen(virt_path) >= OS_MAX_PATH_LEN
            THEN ReturnEarly(t, "OS_FileSysAddFixedMap", "OS_ERR_NAME_TOO_LONG")
            ELSE LET dev_name == StrFrom(phys_path, strrchr(phys_path, "/"))
                 IN  IF StrLen(dev_name) >= OS_FS_DEV_NAME_LEN
                     THEN ReturnEarly(t, "OS_FileSysAddFixedMap", "OS_ERR_NAME_TOO_LONG")
                     ELSE AllocateStep(t, "OS_FileSysAddFixedMap", OS_OBJECT_TYPE_OS_FILESYS,
                                       dev_name,
                                       [ name |-> strncpy(dev_name, OS_FS_DEV_NAME_LEN - 1),
                                         volume_name |-> strncpy(dev_name, OS_FS_DEV_NAME_LEN - 1),
                                         system_mountpt |->
                                             strncpy(phys_path, OS_MAX_LOCAL_PATH_LEN - 1),
                                         virtual_mountpt |->
                                             strncpy(virt_path, OS_MAX_PATH_LEN - 1),
                                         fstype |-> "FS_BASED",
                                         flags |-> { "IS_FIXED" } ],
                                       << filesys_id >>, SameCode)
    \/ /\ At(t, "OS_FileSysAddFixedMap", "Create_Impl")
       /\ \E start \in AdapterCodes, mount \in AdapterCodes :
            LET i == th[t].slot
                ready == IF start = "OS_SUCCESS" THEN { "IS_READY" } ELSE {}
                return_code == IF start = "OS_SUCCESS" THEN mount ELSE start
                mounted == IF return_code = "OS_SUCCESS"
                           THEN { "IS_MOUNTED_SYSTEM", "IS_MOUNTED_VIRTUAL" } ELSE {}
            IN  FinalizeNewStep(t, OS_OBJECT_TYPE_OS_FILESYS, return_code,
                                [internal[OS_OBJECT_TYPE_OS_FILESYS] EXCEPT
                                    ![i].flags = @ \cup ready \cup mounted])

NameNotFound == "OS_ERR_NAME_NOT_FOUND"
PathInvalid == "OS_FS_ERR_PATH_INVALID"

\* OS_rmfs that looks the file system up in GLOBAL mode
OS_rmfs_Global(t) ==
    \/ /\ Attempt(t, "OS_rmfs")
       /\ \E devname \in DevNameArgs :
            /\ At(t, "OS_rmfs", "Retry") => devname = th[t].arg
            /\ IF devname = NullPtr
               THEN ReturnEarly(t, "OS_rmfs", "OS_INVALID_POINTER")
               ELSE IF StrLen(devname) >= OS_MAX_API_NAME
               THEN ReturnEarly(t, "OS_rmfs", "OS_FS_ERR_PATH_TOO_LONG")
               ELSE LookupStep(t, "OS_rmfs", OS_OBJECT_TYPE_OS_FILESYS, TRUE,
                               OS_ObjectIdGetByName("GLOBAL", OS_OBJECT_TYPE_OS_FILESYS,
                                                    devname, th[t].attempts),
                               OS_OBJECT_ID_UNDEFINED, devname, "Delete_Impl", NameNotFound)
    \/ /\ At(t, "OS_rmfs", "Delete_Impl")
       /\ \E status \in AdapterCodes :
            LET i == th[t].slot
                global == table[OS_OBJECT_TYPE_OS_FILESYS][i]
            IN  /\ table' = [table EXCEPT ![OS_OBJECT_TYPE_OS_FILESYS][i].active_id =
                                IF status = "OS_SUCCESS" THEN OS_OBJECT_ID_UNDEFINED ELSE @]
                /\ deleted' = IF status = "OS_SUCCESS"
                              THEN deleted \cup { global.active_id } ELSE deleted
                /\ unlock_errors' = unlock_errors
                                      + UnlockError(lock, t, OS_OBJECT_TYPE_OS_FILESYS)
                /\ lock' = OS_Unlock_Global(lock, t, OS_OBJECT_TYPE_OS_FILESYS)
                /\ Return(t, Done(t, "OS_rmfs", global.active_id, status, NoId, th[t].arg))
                /\ UNCHANGED << internal, last_id_issued >>

\* OS_rmfs that frees the entry whatever the adapter returns
OS_rmfs_FreesAlways(t) ==
    \/ /\ Attempt(t, "OS_rmfs")
       /\ \E devname \in DevNameArgs :
            /\ At(t, "OS_rmfs", "Retry") => devname = th[t].arg
            /\ IF devname = NullPtr
               THEN ReturnEarly(t, "OS_rmfs", "OS_INVALID_POINTER")
               ELSE IF StrLen(devname) >= OS_MAX_API_NAME
               THEN ReturnEarly(t, "OS_rmfs", "OS_FS_ERR_PATH_TOO_LONG")
               ELSE LookupStep(t, "OS_rmfs", OS_OBJECT_TYPE_OS_FILESYS, TRUE,
                               OS_ObjectIdGetByName("EXCLUSIVE", OS_OBJECT_TYPE_OS_FILESYS,
                                                    devname, th[t].attempts),
                               OS_OBJECT_ID_UNDEFINED, devname, "Delete_Impl", NameNotFound)
    \/ /\ At(t, "OS_rmfs", "Delete_Impl")
       /\ \E status \in AdapterCodes :
            LET i == th[t].slot
                global == table[OS_OBJECT_TYPE_OS_FILESYS][i]
            IN  /\ table' = [table EXCEPT ![OS_OBJECT_TYPE_OS_FILESYS][i].active_id =
                                OS_OBJECT_ID_UNDEFINED]
                /\ deleted' = deleted \cup { global.active_id }
                /\ unlock_errors' = unlock_errors
                                      + UnlockError(lock, t, OS_OBJECT_TYPE_OS_FILESYS)
                /\ lock' = OS_Unlock_Global(lock, t, OS_OBJECT_TYPE_OS_FILESYS)
                /\ Return(t, Done(t, "OS_rmfs", global.active_id, status, NoId, th[t].arg))
                /\ UNCHANGED << internal, last_id_issued >>

OS_rmfs(t) ==
    \/ /\ Attempt(t, "OS_rmfs")
       /\ \E devname \in DevNameArgs :
            /\ At(t, "OS_rmfs", "Retry") => devname = th[t].arg
            /\ IF devname = NullPtr
               THEN ReturnEarly(t, "OS_rmfs", "OS_INVALID_POINTER")
               ELSE IF StrLen(devname) >= OS_MAX_API_NAME
               THEN ReturnEarly(t, "OS_rmfs", "OS_FS_ERR_PATH_TOO_LONG")
               ELSE LookupStep(t, "OS_rmfs", OS_OBJECT_TYPE_OS_FILESYS, TRUE,
                               OS_ObjectIdGetByName("EXCLUSIVE", OS_OBJECT_TYPE_OS_FILESYS,
                                                    devname, th[t].attempts),
                               OS_OBJECT_ID_UNDEFINED, devname, "Delete_Impl", NameNotFound)
    \/ /\ At(t, "OS_rmfs", "Delete_Impl")
       /\ \E status \in AdapterCodes :
            LET i == th[t].slot
                global == table[OS_OBJECT_TYPE_OS_FILESYS][i]
            IN  /\ table' = [table EXCEPT ![OS_OBJECT_TYPE_OS_FILESYS][i].active_id =
                                IF status = "OS_SUCCESS" THEN OS_OBJECT_ID_UNDEFINED ELSE @]
                /\ deleted' = IF status = "OS_SUCCESS"
                              THEN deleted \cup { global.active_id } ELSE deleted
                /\ unlock_errors' = unlock_errors
                                      + UnlockError(lock, t, OS_OBJECT_TYPE_OS_FILESYS)
                /\ lock' = OS_Unlock_Global(lock, t, OS_OBJECT_TYPE_OS_FILESYS)
                /\ Return(t, Done(t, "OS_rmfs", global.active_id, status, NoId, th[t].arg))
                /\ UNCHANGED << internal, last_id_issued >>

\* OS_chkfs that returns the adapter's error without OS_ObjectIdRefcountDecr
OS_chkfs_NoDecr(t) ==
    \/ /\ Ready(t)
       /\ \E name \in PathArgs :
            IF name = NullPtr
            THEN ReturnEarly(t, "OS_chkfs", "OS_INVALID_POINTER")
            ELSE IF StrLen(name) >= OS_MAX_PATH_LEN
            THEN ReturnEarly(t, "OS_chkfs", "OS_FS_ERR_PATH_TOO_LONG")
            ELSE LookupStep(t, "OS_chkfs", OS_OBJECT_TYPE_OS_FILESYS, TRUE,
                            OS_ObjectIdGetBySearch("REFCOUNT", OS_OBJECT_TYPE_OS_FILESYS,
                                                   "OS_FileSys_FindVirtMountPoint", name, 0),
                            OS_OBJECT_ID_UNDEFINED, name, "Ref", SameCode)
    \/ /\ At(t, "OS_chkfs", "Ref")
       /\ \E status \in AdapterCodes :
            /\ IF status = "OS_SUCCESS"
               THEN RefcountDecrStep(t, OS_OBJECT_TYPE_OS_FILESYS)
               ELSE UNCHANGED << table, internal, last_id_issued, lock, deleted,
                                 unlock_errors >>
            /\ Return(t, Done(t, "OS_chkfs", NoId, status, NoId, th[t].arg))

OS_chkfs(t) ==
    \/ /\ Ready(t)
       /\ \E name \in PathArgs :
            IF name = NullPtr
            THEN ReturnEarly(t, "OS_chkfs", "OS_INVALID_POINTER")
            ELSE IF StrLen(name) >= OS_MAX_PATH_LEN
            THEN ReturnEarly(t, "OS_chkfs", "OS_FS_ERR_PATH_TOO_LONG")
            ELSE LookupStep(t, "OS_chkfs", OS_OBJECT_TYPE_OS_FILESYS, TRUE,
                            OS_ObjectIdGetBySearch("REFCOUNT", OS_OBJECT_TYPE_OS_FILESYS,
                                                   "OS_FileSys_FindVirtMountPoint", name, 0),
                            OS_OBJECT_ID_UNDEFINED, name, "Ref", SameCode)
    \/ /\ At(t, "OS_chkfs", "Ref")
       /\ \E status \in AdapterCodes :
            /\ RefcountDecrStep(t, OS_OBJECT_TYPE_OS_FILESYS)
            /\ Return(t, Done(t, "OS_chkfs", NoId, status, NoId, th[t].arg))

OS_fsBlocksFree(t) ==
    \/ /\ Ready(t)
       /\ \E name \in PathArgs :
            IF name = NullPtr
            THEN ReturnEarly(t, "OS_fsBlocksFree", "OS_INVALID_POINTER")
            ELSE IF StrLen(name) >= OS_MAX_PATH_LEN
            THEN ReturnEarly(t, "OS_fsBlocksFree", "OS_FS_ERR_PATH_TOO_LONG")
            ELSE LookupStep(t, "OS_fsBlocksFree", OS_OBJECT_TYPE_OS_FILESYS, TRUE,
                            OS_ObjectIdGetBySearch("GLOBAL", OS_OBJECT_TYPE_OS_FILESYS,
                                                   "OS_FileSys_FindVirtMountPoint", name, 0),
                            OS_OBJECT_ID_UNDEFINED, name, "Locked", PathInvalid)
    \/ /\ At(t, "OS_fsBlocksFree", "Locked")
       /\ \E status \in AdapterCodes :
            FinishStep(t, OS_OBJECT_TYPE_OS_FILESYS,
                       IF status = "OS_SUCCESS" THEN "statfs.blocks_free" ELSE status, TRUE)

OS_FS_GetPhysDriveName(t) ==
    \/ /\ Ready(t)
       /\ \E PhysDriveName \in PtrArgs, MountPoint \in PathArgs :
            IF MountPoint = NullPtr \/ PhysDriveName = "NULL"
            THEN ReturnEarly(t, "OS_FS_GetPhysDriveName", "OS_INVALID_POINTER")
            ELSE IF StrLen(MountPoint) >= OS_MAX_PATH_LEN
            THEN ReturnEarly(t, "OS_FS_GetPhysDriveName", "OS_FS_ERR_PATH_TOO_LONG")
            ELSE LookupStep(t, "OS_FS_GetPhysDriveName", OS_OBJECT_TYPE_OS_FILESYS, TRUE,
                            OS_ObjectIdGetBySearch("GLOBAL", OS_OBJECT_TYPE_OS_FILESYS,
                                                   "OS_FileSys_FindVirtMountPoint", MountPoint, 0),
                            OS_OBJECT_ID_UNDEFINED, MountPoint, "Locked", NameNotFound)
    \/ /\ At(t, "OS_FS_GetPhysDriveName", "Locked")
       /\ LET local == internal[OS_OBJECT_TYPE_OS_FILESYS][th[t].slot]
              mounted == "IS_MOUNTED_SYSTEM" \in local.flags
          IN  /\ Return(t, Done(t, "OS_FS_GetPhysDriveName", NoId,
                                 IF mounted THEN "OS_SUCCESS" ELSE "OS_ERR_INCORRECT_OBJ_STATE",
                                 NoId,
                                 IF mounted
                                 THEN strncpy(local.system_mountpt, OS_FS_PHYS_NAME_LEN - 1)
                                 ELSE EmptyStr))
              /\ unlock_errors' = unlock_errors
                                    + UnlockError(lock, t, OS_OBJECT_TYPE_OS_FILESYS)
              /\ lock' = OS_Unlock_Global(lock, t, OS_OBJECT_TYPE_OS_FILESYS)
              /\ UNCHANGED << table, internal, last_id_issued, deleted >>

\* the second half of OS_TranslatePath: the return code and the content of
\* LocalPath, given the record found and the virtual path
TranslateResult(local, VirtualPath) ==
    LET mounted == "IS_MOUNTED_SYSTEM" \in local.flags
        SysMountPointLen == IF mounted THEN StrLen(local.system_mountpt) ELSE 0
        VirtPathBegin == IF mounted THEN StrLen(local.virtual_mountpt) ELSE StrLen(VirtualPath)
        prefix == IF mounted /\ SysMountPointLen < OS_MAX_LOCAL_PATH_LEN
                  THEN local.system_mountpt ELSE EmptyStr
        VirtPathLen == StrLen(VirtualPath)
    IN  IF ~mounted
        THEN [ rc |-> "OS_ERR_INCORRECT_OBJ_STATE", LocalPath |-> prefix ]
        ELSE IF VirtPathLen < VirtPathBegin
        THEN [ rc |-> "OS_FS_ERR_PATH_INVALID", LocalPath |-> prefix ]
        ELSE IF SysMountPointLen + (VirtPathLen - VirtPathBegin) < OS_MAX_LOCAL_PATH_LEN
        THEN [ rc |-> "OS_SUCCESS",
               LocalPath |-> prefix \o StrFrom(VirtualPath, VirtPathBegin) ]
        ELSE [ rc |-> "OS_FS_ERR_PATH_TOO_LONG", LocalPath |-> prefix ]

\* the virtual paths OS_TranslatePath is called with
TranslateArgs ==
    { NullPtr, LongPath, << "m" >>, << "m", "/", "f" >>, << "m", "/", "x", "x", "x", "x" >>,
      << "/", "m" >>, << "/", "m", "/" >>, << "/", "m", "/", "f" >>,
      << "/", "m", "x", "/", "f" >> }

\* what OS_TranslatePath gives back: its return code and the content of
\* LocalPath; "virt" is the virtual path it was called with
TranslateDone(t, rc, VirtualPath, LocalPath) ==
    [ task |-> t, op |-> "OS_TranslatePath", id |-> NoId, ret |-> rc, out |-> NoId,
      str |-> LocalPath, virt |-> VirtualPath ]

\* OS_TranslatePath returns before its lookup
TranslateEarly(t, rc, VirtualPath) ==
    /\ Return(t, TranslateDone(t, rc, VirtualPath, EmptyStr))
    /\ UNCHANGED << table, internal, last_id_issued, lock, deleted, unlock_errors >>

\* the part of OS_TranslatePath that follows its checks of the path: the search
\* for the mount point, in GLOBAL mode
TranslateLookup(t, VirtualPath) ==
    LET r == OS_ObjectIdGetBySearch("GLOBAL", OS_OBJECT_TYPE_OS_FILESYS,
                                    "OS_FileSys_FindVirtMountPoint", VirtualPath, 0)
    IN  IF r.rc = "OS_SUCCESS"
        THEN LookupStep(t, "OS_TranslatePath", OS_OBJECT_TYPE_OS_FILESYS, TRUE, r,
                        OS_OBJECT_ID_UNDEFINED, VirtualPath, "Locked", PathInvalid)
        ELSE /\ LockFree(OS_OBJECT_TYPE_OS_FILESYS)
             /\ TranslateEarly(t, PathInvalid, VirtualPath)

\* the end of OS_TranslatePath
TranslateEnd(t) ==
    /\ At(t, "OS_TranslatePath", "Locked")
    /\ LET r == TranslateResult(internal[OS_OBJECT_TYPE_OS_FILESYS][th[t].slot], th[t].arg)
       IN  /\ Return(t, TranslateDone(t, r.rc, th[t].arg, r.LocalPath))
           /\ unlock_errors' = unlock_errors
                                 + UnlockError(lock, t, OS_OBJECT_TYPE_OS_FILESYS)
           /\ lock' = OS_Unlock_Global(lock, t, OS_OBJECT_TYPE_OS_FILESYS)
           /\ UNCHANGED << table, internal, last_id_issued, deleted >>

\* OS_TranslatePath without its test of the first character
OS_TranslatePath_AnyStart(t) ==
    \/ /\ Ready(t)
       /\ \E VirtualPath \in TranslateArgs, LocalPath \in PtrArgs :
            IF VirtualPath = NullPtr \/ LocalPath = "NULL"
            THEN TranslateEarly(t, "OS_INVALID_POINTER", VirtualPath)
            ELSE IF StrLen(VirtualPath) >= OS_MAX_PATH_LEN
            THEN TranslateEarly(t, "OS_FS_ERR_PATH_TOO_LONG", VirtualPath)
            ELSE IF strrchr(VirtualPath, "/") = 0
            THEN TranslateEarly(t, "OS_FS_ERR_PATH_INVALID", VirtualPath)
            ELSE IF StrLen(StrFrom(VirtualPath, strrchr(VirtualPath, "/"))) >= OS_MAX_FILE_NAME
            THEN TranslateEarly(t, "OS_FS_ERR_NAME_TOO_LONG", VirtualPath)
            ELSE TranslateLookup(t, VirtualPath)
    \/ TranslateEnd(t)

OS_TranslatePath(t) ==
    \/ /\ Ready(t)
       /\ \E VirtualPath \in TranslateArgs, LocalPath \in PtrArgs :
            IF VirtualPath = NullPtr \/ LocalPath = "NULL"
            THEN TranslateEarly(t, "OS_INVALID_POINTER", VirtualPath)
            ELSE IF StrLen(VirtualPath) >= OS_MAX_PATH_LEN
            THEN TranslateEarly(t, "OS_FS_ERR_PATH_TOO_LONG", VirtualPath)
            ELSE IF strrchr(VirtualPath, "/") = 0
            THEN TranslateEarly(t, "OS_FS_ERR_PATH_INVALID", VirtualPath)
            ELSE IF StrLen(StrFrom(VirtualPath, strrchr(VirtualPath, "/"))) >= OS_MAX_FILE_NAME
            THEN TranslateEarly(t, "OS_FS_ERR_NAME_TOO_LONG", VirtualPath)
            ELSE IF VirtualPath[1] # "/"
            THEN TranslateEarly(t, "OS_FS_ERR_PATH_INVALID", VirtualPath)
            ELSE TranslateLookup(t, VirtualPath)
    \/ TranslateEnd(t)

(***************************************************************************)
(* File systems that are made, mounted and unmounted (osapi-filesys.c).    *)
(* What a call gives back carries, in "impl", the calls of the adapter the *)
(* call has made, in their order.                                          *)
(***************************************************************************)
OS_FS_VOL_NAME_LEN == 4

RamVolume == << "R", "A", "M" >>
MkfsDevArgs == { NullPtr, EmptyStr, << "p" >>, << "q" >>, LongName }
VolNameArgs == { NullPtr, EmptyStr, RamVolume, LongName }
MountPointArgs == { NullPtr, << "/", "m" >>, LongPath }

\* the system mount point the adapter may give to a volume it starts
SysMountPoints == { EmptyStr, << "/", "r" >> }

FsDone(t, op, rc, impl) ==
    [ task |-> t, op |-> op, id |-> NoId, ret |-> rc, out |-> NoId, str |-> EmptyStr,
      impl |-> impl ]

\* the historic code of mkfs and initfs
LegacyCode(return_code) ==
    IF return_code \in { "OS_ERR_INCORRECT_OBJ_STATE", "OS_ERR_NO_FREE_IDS" }
    THEN "OS_FS_ERR_DEVICE_NOT_FREE"
    ELSE return_code

\* the first part of OS_FileSys_Initialize, to its call of OS_ObjectIdAllocateNew
FileSysInitBegin(t, op) ==
    /\ Ready(t)
    /\ \E address \in PtrArgs, fsdevname \in MkfsDevArgs, fsvolname \in VolNameArgs :
         IF fsdevname = NullPtr \/ fsvolname = NullPtr
         THEN ReturnEarly(t, op, "OS_INVALID_POINTER")
         ELSE IF fsdevname = EmptyStr \/ fsvolname = EmptyStr
         THEN ReturnEarly(t, op, "OS_FS_ERR_PATH_INVALID")
         ELSE IF StrLen(fsdevname) >= OS_FS_DEV_NAME_LEN
                 \/ StrLen(fsvolname) >= OS_FS_VOL_NAME_LEN
         THEN ReturnEarly(t, op, "OS_FS_ERR_PATH_TOO_LONG")
         ELSE AllocateStep(t, op, OS_OBJECT_TYPE_OS_FILESYS, fsdevname,
                           [ name |-> fsdevname, volume_name |-> fsvolname,
                             system_mountpt |-> EmptyStr, virtual_mountpt |-> EmptyStr,
                             fstype |-> IF address # "NULL"
                                           \/ strncpy(fsvolname, Len(RamVolume)) = RamVolume
                                        THEN "VOLATILE_DISK" ELSE "UNKNOWN",
                             flags |-> {} ],
                           << "NULL" >>,
                           LegacyCode(OS_ObjectIdAllocateNew(t, OS_OBJECT_TYPE_OS_FILESYS,
                                                             fsdevname).rc))

\* the calls of the adapter that OS_FileSys_Initialize makes under the type-lock,
\* "start" and "format" being what the adapter returns for them
FileSysInitCalls(start, format, should_format) ==
    << "OS_FileSysStartVolume_Impl" >>
      \o (IF start = "OS_SUCCESS" /\ should_format
          THEN << "OS_FileSysFormatVolume_Impl" >> ELSE << >>)
      \o (IF start = "OS_SUCCESS" /\ should_format /\ format # "OS_SUCCESS"
          THEN << "OS_FileSysStopVolume_Impl" >> ELSE << >>)

\* the end of OS_FileSys_Initialize: the record as the calls have left it, with
\* the system mount point the adapter has given to a volume that has started,
\* and OS_ObjectIdFinalizeNew with return_code
FileSysInitEnd(t, op, mountpt, return_code, ready, impl) ==
    LET i == th[t].slot
        f == OS_ObjectIdFinalizeNew(return_code, OS_OBJECT_TYPE_OS_FILESYS, i,
                 [internal[OS_OBJECT_TYPE_OS_FILESYS] EXCEPT
                     ![i].system_mountpt = mountpt,
                     ![i].flags = IF ready THEN @ \cup { "IS_READY" } ELSE @])
    IN  /\ table' = [table EXCEPT ![OS_OBJECT_TYPE_OS_FILESYS] = f.tab]
        /\ internal' = [internal EXCEPT ![OS_OBJECT_TYPE_OS_FILESYS] = f.int]
        /\ unlock_errors' = unlock_errors + UnlockError(lock, t, OS_OBJECT_TYPE_OS_FILESYS)
        /\ lock' = OS_Unlock_Global(lock, t, OS_OBJECT_TYPE_OS_FILESYS)
        /\ Return(t, FsDone(t, op, LegacyCode(f.rc), impl))
        /\ deleted' = deleted \ { f.outid }
        /\ UNCHANGED last_id_issued

\* OS_FileSys_Initialize that goes on as if the format had succeeded
OS_FileSys_Initialize_FormatIgnored(t, op, should_format) ==
    \/ FileSysInitBegin(t, op)
    \/ /\ At(t, op, "Create_Impl")
       /\ \E start \in AdapterCodes, format \in AdapterCodes, mountpt \in SysMountPoints :
            FileSysInitEnd(t, op, IF start = "OS_SUCCESS" THEN mountpt ELSE EmptyStr,
                           start, start = "OS_SUCCESS",
                           FileSysInitCalls(start, format, should_format))

OS_FileSys_Initialize(t, op, should_format) ==
    \/ FileSysInitBegin(t, op)
    \/ /\ At(t, op, "Create_Impl")
       /\ \E start \in AdapterCodes, format \in AdapterCodes, mountpt \in SysMountPoints :
            LET return_code == IF start = "OS_SUCCESS" /\ should_format THEN format ELSE start
            IN  FileSysInitEnd(t, op, IF start = "OS_SUCCESS" THEN mountpt ELSE EmptyStr,
                               return_code, return_code = "OS_SUCCESS",
                               FileSysInitCalls(start, format, should_format))

OS_mkfs(t) == OS_FileSys_Initialize(t, "OS_mkfs", TRUE)

OS_initfs(t) == OS_FileSys_Initialize(t, "OS_initfs", FALSE)

\* a return of OS_mount or OS_unmount from the checks of its arguments, which
\* are kept with the code
MountEarly(t, op, rc, args) ==
    /\ Return(t, Done(t, op, NoId, rc, NoId, args))
    /\ UNCHANGED << table, internal, last_id_issued, lock, deleted, unlock_errors >>

\* the first part of OS_mount, to its lookup of the device by name
OS_mount_Lookup(t) ==
    /\ Attempt(t, "OS_mount")
    /\ \E devname \in DevNameArgs, mountpoint \in MountPointArgs :
         /\ At(t, "OS_mount", "Retry") => << devname, mountpoint >> = th[t].arg
         /\ IF devname = NullPtr \/ mountpoint = NullPtr
            THEN MountEarly(t, "OS_mount", "OS_INVALID_POINTER", << devname, mountpoint >>)
            ELSE IF StrLen(devname) >= OS_FS_DEV_NAME_LEN
                    \/ StrLen(mountpoint) >= OS_MAX_PATH_LEN
            THEN MountEarly(t, "OS_mount", "OS_FS_ERR_PATH_TOO_LONG",
                            << devname, mountpoint >>)
            ELSE LookupStep(t, "OS_mount", OS_OBJECT_TYPE_OS_FILESYS, TRUE,
                            OS_ObjectIdGetByName("EXCLUSIVE", OS_OBJECT_TYPE_OS_FILESYS,
                                                 devname, th[t].attempts),
                            OS_OBJECT_ID_UNDEFINED, << devname, mountpoint >>, "Locked",
                            NameNotFound)

\* an end of OS_mount and of OS_unmount that returns the code it is left with
MountEnd_SameCode(t, return_code, flags, virtual_mountpt, impl) ==
    LET i == th[t].slot
    IN  /\ internal' = [internal EXCEPT
                          ![OS_OBJECT_TYPE_OS_FILESYS][i].flags = flags,
                          ![OS_OBJECT_TYPE_OS_FILESYS][i].virtual_mountpt = virtual_mountpt]
        /\ unlock_errors' = unlock_errors + UnlockError(lock, t, OS_OBJECT_TYPE_OS_FILESYS)
        /\ lock' = OS_Unlock_Global(lock, t, OS_OBJECT_TYPE_OS_FILESYS)
        /\ Return(t, [FsDone(t, th[t].op, return_code, impl)
                        EXCEPT !.id = table[OS_OBJECT_TYPE_OS_FILESYS][i].active_id,
                               !.str = th[t].arg])
        /\ UNCHANGED << table, last_id_issued, deleted >>

\* the end of OS_mount and of OS_unmount: the flags and the virtual mount point
\* as the call leaves them, OS_Unlock_Global, and every failure turned into
\* OS_ERR_NAME_NOT_FOUND
MountEnd(t, return_code, flags, virtual_mountpt, impl) ==
    LET i == th[t].slot
    IN  /\ internal' = [internal EXCEPT
                          ![OS_OBJECT_TYPE_OS_FILESYS][i].flags = flags,
                          ![OS_OBJECT_TYPE_OS_FILESYS][i].virtual_mountpt = virtual_mountpt]
        /\ unlock_errors' = unlock_errors + UnlockError(lock, t, OS_OBJECT_TYPE_OS_FILESYS)
        /\ lock' = OS_Unlock_Global(lock, t, OS_OBJECT_TYPE_OS_FILESYS)
        /\ Return(t, [FsDone(t, th[t].op,
                             IF return_code = "OS_SUCCESS" THEN "OS_SUCCESS"
                             ELSE "OS_ERR_NAME_NOT_FOUND", impl)
                        EXCEPT !.id = table[OS_OBJECT_TYPE_OS_FILESYS][i].active_id,
                               !.str = th[t].arg])
        /\ UNCHANGED << table, last_id_issued, deleted >>

Mounted == { "IS_MOUNTED_SYSTEM", "IS_MOUNTED_VIRTUAL" }

\* OS_mount that does not look at the flags of the file system
OS_mount_AnyFlags(t) ==
    \/ OS_mount_Lookup(t)
    \/ /\ At(t, "OS_mount", "Locked")
       /\ LET local == internal[OS_OBJECT_TYPE_OS_FILESYS][th[t].slot]
          IN  IF local.system_mountpt = EmptyStr
              THEN MountEnd(t, "OS_FS_ERR_PATH_INVALID", local.flags, local.virtual_mountpt,
                            << >>)
              ELSE \E status \in AdapterCodes :
                     MountEnd(t, status,
                              IF status = "OS_SUCCESS" THEN local.flags \cup Mounted
                              ELSE local.flags,
                              IF status = "OS_SUCCESS" THEN th[t].arg[2]
                              ELSE local.virtual_mountpt,
                              << "OS_FileSysMountVolume_Impl" >>)

OS_mount(t) ==
    \/ OS_mount_Lookup(t)
    \/ /\ At(t, "OS_mount", "Locked")
       /\ LET local == internal[OS_OBJECT_TYPE_OS_FILESYS][th[t].slot]
          IN  IF local.flags \ { "IS_FIXED" } # { "IS_READY" }
              THEN MountEnd(t, "OS_ERR_INCORRECT_OBJ_STATE", local.flags,
                            local.virtual_mountpt, << >>)
              ELSE IF local.system_mountpt = EmptyStr
              THEN MountEnd(t, "OS_FS_ERR_PATH_INVALID", local.flags, local.virtual_mountpt,
                            << >>)
              ELSE \E status \in AdapterCodes :
                     MountEnd(t, status,
                              IF status = "OS_SUCCESS" THEN local.flags \cup Mounted
                              ELSE local.flags,
                              IF status = "OS_SUCCESS" THEN th[t].arg[2]
                              ELSE local.virtual_mountpt,
                              << "OS_FileSysMountVolume_Impl" >>)

\* the first part of OS_unmount, to its search for the mount point
OS_unmount_Lookup(t) ==
    /\ Attempt(t, "OS_unmount")
    /\ \E mountpoint \in MountPointArgs \cup PathArgs :
         /\ At(t, "OS_unmount", "Retry") => mountpoint = th[t].arg
         /\ IF mountpoint = NullPtr
            THEN MountEarly(t, "OS_unmount", "OS_INVALID_POINTER", mountpoint)
            ELSE IF StrLen(mountpoint) >= OS_MAX_PATH_LEN
            THEN MountEarly(t, "OS_unmount", "OS_FS_ERR_PATH_TOO_LONG", mountpoint)
            ELSE LookupStep(t, "OS_unmount", OS_OBJECT_TYPE_OS_FILESYS, TRUE,
                            OS_ObjectIdGetBySearch("EXCLUSIVE", OS_OBJECT_TYPE_OS_FILESYS,
                                                   "OS_FileSys_FindVirtMountPoint",
                                                   mountpoint, th[t].attempts),
                            OS_OBJECT_ID_UNDEFINED, mountpoint, "Locked", NameNotFound)

\* OS_unmount that leaves the flags as they are
OS_unmount_KeepFlags(t) ==
    \/ OS_unmount_Lookup(t)
    \/ /\ At(t, "OS_unmount", "Locked")
       /\ LET local == internal[OS_OBJECT_TYPE_OS_FILESYS][th[t].slot]
          IN  IF local.flags \ { "IS_FIXED" } # { "IS_READY" } \cup Mounted
              THEN MountEnd(t, "OS_ERR_INCORRECT_OBJ_STATE", local.flags,
                            local.virtual_mountpt, << >>)
              ELSE \E status \in AdapterCodes :
                     MountEnd(t, status, local.flags, local.virtual_mountpt,
                              << "OS_FileSysUnmountVolume_Impl" >>)

OS_unmount(t) ==
    \/ OS_unmount_Lookup(t)
    \/ /\ At(t, "OS_unmount", "Locked")
       /\ LET local == internal[OS_OBJECT_TYPE_OS_FILESYS][th[t].slot]
          IN  IF local.flags \ { "IS_FIXED" } # { "IS_READY" } \cup Mounted
              THEN MountEnd(t, "OS_ERR_INCORRECT_OBJ_STATE", local.flags,
                            local.virtual_mountpt, << >>)
              ELSE \E status \in AdapterCodes :
                     MountEnd(t, status,
                              IF status = "OS_SUCCESS" THEN local.flags \ Mounted
                              ELSE local.flags,
                              local.virtual_mountpt,
                              << "OS_FileSysUnmountVolume_Impl" >>)

(***************************************************************************)
(* The servicing task of a time base, OS_TimeBase_CallbackThread.          *)
(***************************************************************************)
OS_TIMEBASE_SPIN_LIMIT == 4

MaxTicks == 5

\* what the sync function may return: 0 for an interrupted wait, else the
\* microseconds of one tick
TickUsec == 1000
TickTimes == { 0, TickUsec }

\* the times and callbacks timers may have been armed with
WaitTimes == { 0, 1000, 2500 }
IntervalTimes == { 0, 400, 1000, 1500 }
CallbackPtrs == { "NULL", "cb" }

\* the servicing task: its position, its arguments and locals, and "zeros", the
\* number of times in a row the sync function has just returned 0, counted up
\* to MaxZeros
MaxZeros == OS_TIMEBASE_SPIN_LIMIT + 2

NoSvc == [ pc |-> "none", timebase_id |-> OS_OBJECT_ID_UNDEFINED, local_id |-> 0,
           spin_cycles |-> 0, zeros |-> 0 ]

\* the while loop with the condition wait_time < 0
RECURSIVE TimerLoop_WhileNegative(_, _, _)
TimerLoop_WhileNegative(cb, saved_wait_time, n) ==
    IF cb.wait_time >= 0
    THEN [ cb |-> cb, n |-> n ]
    ELSE LET added == cb.wait_time + cb.interval_time
             reset == added < -cb.interval_time
             next == [cb EXCEPT !.wait_time = IF reset THEN -cb.interval_time ELSE added,
                                !.backlog_resets = IF reset THEN @ + 1 ELSE @]
             m == IF saved_wait_time > 0 /\ cb.callback_ptr # "NULL" THEN n + 1 ELSE n
         IN  IF cb.interval_time <= 0
             THEN [ cb |-> next, n |-> m ]
             ELSE TimerLoop_WhileNegative(next, saved_wait_time, m)

\* the while loop over one timer at a tick: cb is the timer's record after
\* "wait_time -= tick_time", n the number of callbacks given so far
RECURSIVE TimerLoop(_, _, _)
TimerLoop(cb, saved_wait_time, n) ==
    IF cb.wait_time > 0
    THEN [ cb |-> cb, n |-> n ]
    ELSE LET added == cb.wait_time + cb.interval_time
             reset == added < -cb.interval_time
             next == [cb EXCEPT !.wait_time = IF reset THEN -cb.interval_time ELSE added,
                                !.backlog_resets = IF reset THEN @ + 1 ELSE @]
             m == IF saved_wait_time > 0 /\ cb.callback_ptr # "NULL" THEN n + 1 ELSE n
         IN  IF cb.interval_time <= 0
             THEN [ cb |-> next, n |-> m ]
             ELSE TimerLoop(next, saved_wait_time, m)

\* one timer at a tick, its callback given whatever wait_time was before
TimerTick_NoEdge(cb, tick_time) ==
    TimerLoop([cb EXCEPT !.wait_time = @ - tick_time], 1, 0)

\* one timer at a tick, saved_wait_time taken after tick_time has been subtracted
TimerTick_SavedAfter(cb, tick_time) ==
    TimerLoop([cb EXCEPT !.wait_time = @ - tick_time], cb.wait_time - tick_time, 0)

\* one timer at a tick
TimerTick(cb, tick_time) ==
    TimerLoop([cb EXCEPT !.wait_time = @ - tick_time], cb.wait_time, 0)

\* the walk of the ring from curr_cb_local_id until it is back at timer_id:
\* the timer records and the number of callbacks each timer was given
RECURSIVE RingWalk(_, _, _, _, _)
RingWalk(cbs, given, curr_cb_local_id, timer_id, tick_time) ==
    LET r == TimerTick(cbs[curr_cb_local_id], tick_time)
        cbs2 == [cbs EXCEPT ![curr_cb_local_id] = r.cb]
        given2 == [given EXCEPT ![curr_cb_local_id] = @ + r.n]
    IN  IF r.cb.next_ref = timer_id
        THEN [ cbs |-> cbs2, given |-> given2 ]
        ELSE RingWalk(cbs2, given2, r.cb.next_ref, timer_id, tick_time)

\* k times the tick number x, appended to a log
RECURSIVE Repeat(_, _, _)
Repeat(log, x, k) == IF k = 0 THEN log ELSE Repeat(Append(log, x), x, k - 1)

\* the free-running count as a count of ticks
FreeRunAdd_Ticks(freerun_time, tick_time) ==
    U32Add(freerun_time, IF tick_time # 0 THEN 1 ELSE 0)

\* timebase->freerun_time += tick_time, in uint32
FreeRunAdd(freerun_time, tick_time) == U32Add(freerun_time, tick_time)

\* what a round of the loop of the servicing task did: the tick_time the sync
\* function returned, the milliseconds of its OS_TaskDelay_Impl (0 for no call),
\* whether it gave the debug warning, and whether it left the loop
SvcDone(tick_time, delay, warned, left) ==
    [ task |-> 0, op |-> "OS_TimeBase_CallbackThread", id |-> svc.timebase_id,
      ret |-> IF left THEN "break" ELSE "loop", out |-> NoId, str |-> EmptyStr,
      tick_time |-> tick_time, delay |-> delay, warned |-> warned ]

\* a check of the tick_time that gives the warning with every delay
SpinCheck_WarnsAgain(tick_time, spin_cycles) ==
    IF tick_time # 0
    THEN [ spin_cycles |-> 0, delay |-> 0, warned |-> FALSE ]
    ELSE IF spin_cycles < OS_TIMEBASE_SPIN_LIMIT
    THEN [ spin_cycles |-> spin_cycles + 1, delay |-> 0, warned |-> FALSE ]
    ELSE [ spin_cycles |-> spin_cycles, delay |-> 10, warned |-> TRUE ]

\* the check of the tick_time at the top of a round: the new spin_cycles, the
\* milliseconds of the OS_TaskDelay_Impl (0 for no call), and whether the
\* warning is given
SpinCheck(tick_time, spin_cycles) ==
    IF tick_time # 0
    THEN [ spin_cycles |-> 0, delay |-> 0, warned |-> FALSE ]
    ELSE IF spin_cycles < OS_TIMEBASE_SPIN_LIMIT
    THEN [ spin_cycles |-> spin_cycles + 1, delay |-> 0, warned |-> FALSE ]
    ELSE IF spin_cycles = OS_TIMEBASE_SPIN_LIMIT
    THEN [ spin_cycles |-> spin_cycles + 1, delay |-> 10, warned |-> TRUE ]
    ELSE [ spin_cycles |-> spin_cycles, delay |-> 10, warned |-> FALSE ]

\* a servicing task that goes on whenever its slot holds a time base
TimeBaseActive_AnyId ==
    table[OS_OBJECT_TYPE_OS_TIMEBASE][svc.local_id].active_id # OS_OBJECT_ID_UNDEFINED

\* the slot of the servicing task still holds the time base it started with
TimeBaseActive ==
    OS_ObjectIdEqual(svc.timebase_id,
                     table[OS_OBJECT_TYPE_OS_TIMEBASE][svc.local_id].active_id)

\* one round of the loop, for the tick_time the sync function has returned;
\* "stay" tells whether the round is seen while it is in a callback
ServiceRound(tick_time, stay) ==
    LET local_id == svc.local_id
        timebase == internal[OS_OBJECT_TYPE_OS_TIMEBASE][local_id]
        sp == SpinCheck(tick_time, svc.spin_cycles)
        spin == sp.spin_cycles
        delay == sp.delay
        warned == sp.warned
        zeros == IF tick_time # 0 THEN 0
                 ELSE IF svc.zeros < MaxZeros THEN svc.zeros + 1 ELSE svc.zeros
        now == IF tick_time # 0 THEN ticks + 1 ELSE ticks
        first == OS_ObjectIdToArrayIndex(OS_OBJECT_TYPE_OS_TIMECB, timebase.first_cb)
        walk == IF first.rc = "OS_SUCCESS"
                THEN RingWalk(internal[OS_OBJECT_TYPE_OS_TIMECB],
                              [ s \in Slots |-> 0 ], first.idx, first.idx, tick_time)
                ELSE [ cbs |-> internal[OS_OBJECT_TYPE_OS_TIMECB],
                       given |-> [ s \in Slots |-> 0 ] ]
        in_callback == stay /\ \E s \in Slots : walk.given[s] > 0
    IN  IF ~TimeBaseActive
        THEN /\ svc' = [svc EXCEPT !.pc = "exit", !.spin_cycles = spin, !.zeros = zeros]
             /\ ticks' = now
             /\ result' = SvcDone(tick_time, delay, warned, TRUE)
             /\ UNCHANGED << table, internal, last_id_issued, lock, th, deleted,
                             unlock_errors, armed, calls, ticks_before, xvars >>
        ELSE /\ svc' = [svc EXCEPT !.pc = IF in_callback THEN "callback" ELSE "loop",
                                   !.spin_cycles = spin, !.zeros = zeros]
             /\ ticks' = now
             /\ internal' = [internal EXCEPT
                    ![OS_OBJECT_TYPE_OS_TIMEBASE][local_id].freerun_time =
                        FreeRunAdd(@, tick_time),
                    ![OS_OBJECT_TYPE_OS_TIMECB] = walk.cbs]
             /\ calls' = [ s \in Slots |-> Repeat(calls[s], now, walk.given[s]) ]
             /\ result' = SvcDone(tick_time, delay, warned, FALSE)
             /\ UNCHANGED << table, last_id_issued, lock, th, deleted,
                             unlock_errors, armed, ticks_before, xvars >>

OS_TimeBase_CallbackThread ==
    \* registration and the lookup of the time base, whose failure ends the task
    \/ /\ svc.pc = "start"
       /\ LockFree(OS_OBJECT_TYPE_OS_TIMEBASE)
       /\ LET r == OS_ObjectIdGetById("GLOBAL", OS_OBJECT_TYPE_OS_TIMEBASE, svc.timebase_id, 0)
          IN  svc' = IF r.rc = "OS_SUCCESS"
                     THEN [svc EXCEPT !.pc = "loop", !.local_id = r.idx, !.spin_cycles = 0]
                     ELSE [svc EXCEPT !.pc = "exit"]
       /\ result' = NoResult
       /\ UNCHANGED << table, internal, last_id_issued, lock, th, deleted, unlock_errors,
                       ticks, armed, calls, ticks_before, xvars >>
    \* one round of the loop
    \/ /\ svc.pc = "loop"
       /\ ticks < MaxTicks
       /\ \E tick_time \in TickTimes : ServiceRound(tick_time, FALSE)

\* a round of the loop in which the callback of a timer reads the free-running
\* count: OS_TimeBaseGetFreeRun looks the time base up in NONE mode, for which
\* it takes the type-lock, while the servicing task holds the lock of the time
\* base
CallbackGetFreeRun ==
    \/ /\ svc.pc = "loop"
       /\ ticks < MaxTicks
       /\ \E tick_time \in TickTimes : ServiceRound(tick_time, TRUE)
    \/ /\ svc.pc = "callback"
       /\ LockFree(OS_OBJECT_TYPE_OS_TIMEBASE)
       /\ LET r == OS_ObjectIdGetById("NONE", OS_OBJECT_TYPE_OS_TIMEBASE, svc.timebase_id, 0)
          IN  result' = Done(0, "OS_TimeBaseGetFreeRun", svc.timebase_id, r.rc,
                             IF r.rc = "OS_SUCCESS"
                             THEN internal[OS_OBJECT_TYPE_OS_TIMEBASE][r.idx].freerun_time
                             ELSE NoId, EmptyStr)
       /\ svc' = [svc EXCEPT !.pc = "loop"]
       /\ UNCHANGED << table, internal, last_id_issued, lock, th, deleted, unlock_errors,
                       ticks, armed, calls, ticks_before, xvars >>

(***************************************************************************)
(* Initialization and shutdown (osapi-common.c).  The calls are made by    *)
(* the main task of the application, one at a time.                        *)
(***************************************************************************)
MaxInitCalls == 3   \* calls of OS_API_Init in a run

OS_OBJECT_TYPE_OS_CONSOLE == 12
OS_OBJECT_TYPE_USER == 16

\* the types that have a case in the switch of OS_API_Init
InitTypes == OS_OBJECT_TYPE_OS_TASK .. OS_OBJECT_TYPE_OS_CONSOLE

\* a step of the main task: it leaves the tasks and the time bases alone
MainStep(c, res) ==
    /\ common' = c
    /\ result' = res
    /\ UNCHANGED << lock, th, deleted, unlock_errors, tvars, codec, registered >>

\* what a call of the main task gives back
MainDone(op, rc) == Done(0, op, NoId, rc, NoId, EmptyStr)

\* OS_API_Init returns rc
InitReturn(rc) ==
    MainStep([common EXCEPT !.pc = "idle", !.return_code = rc, !.init_steps = @ + 1],
             MainDone("OS_API_Init", rc))

\* the entry of OS_API_Init where only an initialization that succeeded counts
OS_API_Init_Begin_SetAtEnd ==
    /\ common.pc = "idle"
    /\ common.init_calls < MaxInitCalls
    /\ IF common.Initialized # FALSE /\ common.return_code = "OS_SUCCESS"
       THEN MainStep([common EXCEPT !.init_calls = @ + 1], MainDone("OS_API_Init", "OS_ERROR"))
       ELSE MainStep([common EXCEPT !.init_calls = @ + 1, !.Initialized = TRUE,
                                    !.pc = "OS_ObjectIdInit", !.return_code = "OS_SUCCESS"],
                     NoResult)
    /\ UNCHANGED << table, internal, last_id_issued >>

\* the entry of OS_API_Init: the test of the flag, and its setting
OS_API_Init_Begin ==
    /\ common.pc = "idle"
    /\ common.init_calls < MaxInitCalls
    /\ IF common.Initialized # FALSE
       THEN MainStep([common EXCEPT !.init_calls = @ + 1], MainDone("OS_API_Init", "OS_ERROR"))
       ELSE MainStep([common EXCEPT !.init_calls = @ + 1, !.Initialized = TRUE,
                                    !.pc = "OS_ObjectIdInit", !.return_code = "OS_SUCCESS"],
                     NoResult)
    /\ UNCHANGED << table, internal, last_id_issued >>

\* OS_ObjectIdInit zeroes the common records and the serial counters of every type
OS_ObjectIdInit ==
    /\ common.pc = "OS_ObjectIdInit"
    /\ table' = [ ty \in Types |-> [ s \in Slots |-> ZeroCommon ] ]
    /\ last_id_issued' = [ ty \in Types |-> 0 ]
    /\ UNCHANGED internal
    /\ \E return_code \in AdapterCodes :
         IF return_code # "OS_SUCCESS"
         THEN InitReturn(return_code)
         ELSE MainStep([common EXCEPT !.pc = "OS_API_Impl_Init", !.idtype = 0,
                                      !.init_steps = @ + 1], NoResult)

OS_API_Init ==
    \/ OS_API_Init_Begin
    \/ OS_ObjectIdInit
    \* the adapter's init of the type; that of the time bases sets the tick globals
    \/ /\ common.pc = "OS_API_Impl_Init"
       /\ UNCHANGED << table, internal, last_id_issued >>
       /\ \E return_code \in AdapterCodes,
             usec \in { 0, OS_SharedGlobalVars_MicroSecPerTick } :
            LET c == IF common.idtype = OS_OBJECT_TYPE_OS_TIMEBASE
                     THEN [common EXCEPT !.MicroSecPerTick = usec,
                                         !.TicksPerSecond =
                                             IF usec = 0 THEN 0 ELSE 1000000 \div usec]
                     ELSE common
            IN  /\ common.idtype # OS_OBJECT_TYPE_OS_TIMEBASE => usec = 0
                /\ IF return_code # "OS_SUCCESS"
                   THEN MainStep([c EXCEPT !.pc = "idle", !.return_code = return_code,
                                           !.init_steps = @ + 1],
                                 MainDone("OS_API_Init", return_code))
                   ELSE MainStep([c EXCEPT !.pc = "API_Init", !.init_steps = @ + 1], NoResult)
    \* the wrapper's init of the type zeroes its internal records
    \/ /\ common.pc = "API_Init"
       /\ UNCHANGED << table, last_id_issued >>
       /\ internal' = IF common.idtype \in Types
                      THEN [internal EXCEPT ![common.idtype] =
                              [ s \in Slots |-> ZeroInternal(common.idtype) ]]
                      ELSE internal
       /\ \E return_code \in AdapterCodes :
            /\ (common.idtype \in Types \/ common.idtype \notin InitTypes)
                 => return_code = "OS_SUCCESS"
            /\ IF return_code # "OS_SUCCESS"
               THEN InitReturn(return_code)
               ELSE MainStep([common EXCEPT
                                !.pc = IF common.idtype + 1 < OS_OBJECT_TYPE_USER
                                       THEN "OS_API_Impl_Init" ELSE "OS_NetworkAPI_Init",
                                !.idtype = @ + 1,
                                !.init_steps = @ + (IF common.idtype \in InitTypes THEN 1 ELSE 0)],
                             NoResult)
    \/ /\ common.pc = "OS_NetworkAPI_Init"
       /\ UNCHANGED << table, internal, last_id_issued >>
       /\ \E return_code \in AdapterCodes :
            IF return_code # "OS_SUCCESS"
            THEN InitReturn(return_code)
            ELSE MainStep([common EXCEPT !.pc = "OS_SocketAPI_Init", !.init_steps = @ + 1],
                          NoResult)
    \* the last init, then the test of the tick globals
    \/ /\ common.pc = "OS_SocketAPI_Init"
       /\ UNCHANGED << table, internal, last_id_issued >>
       /\ \E return_code \in AdapterCodes :
            IF return_code = "OS_SUCCESS"
                 /\ (common.MicroSecPerTick = 0 \/ common.TicksPerSecond = 0)
            THEN InitReturn("OS_ERROR")
            ELSE InitReturn(return_code)

\* the uint8 values a caller may pass as the flag of OS_ApplicationShutdown
FlagArgs == { 0, 1, 2, 255 }

MaxShutdowns == 3   \* calls of OS_ApplicationShutdown in a run

\* 0xABADC0DE, as the two halves of a uint32
OS_SHUTDOWN_MAGIC_NUMBER == << 43949, 49374 >>

\* OS_ApplicationShutdown that takes every nonzero flag for true
OS_ApplicationShutdown_NonZero(t) ==
    /\ Ready(t)
    /\ common.wakes < MaxShutdowns
    /\ \E flag \in FlagArgs :
         /\ common' = [common EXCEPT
                         !.ShutdownFlag = IF flag # 0 THEN OS_SHUTDOWN_MAGIC_NUMBER ELSE @,
                         !.flag = flag,
                         !.wakes = @ + 1]
         /\ result' = Done(t, "OS_ApplicationShutdown", NoId, "void", NoId, EmptyStr)
    /\ UNCHANGED << table, internal, last_id_issued, lock, th, deleted, unlock_errors,
                    tvars, codec, registered >>

\* OS_ApplicationShutdown, called by any task: "true" is 1; the call of
\* OS_ApplicationShutdown_Impl, the wake hook, is counted in "wakes"
OS_ApplicationShutdown(t) ==
    /\ Ready(t)
    /\ common.wakes < MaxShutdowns
    /\ \E flag \in FlagArgs :
         /\ common' = [common EXCEPT
                         !.ShutdownFlag = IF flag = 1 THEN OS_SHUTDOWN_MAGIC_NUMBER ELSE @,
                         !.flag = flag,
                         !.wakes = @ + 1]
         /\ result' = Done(t, "OS_ApplicationShutdown", NoId, "void", NoId, EmptyStr)
    /\ UNCHANGED << table, internal, last_id_issued, lock, th, deleted, unlock_errors,
                    tvars, codec, registered >>

\* OS_IdleLoop, called by the main task: the test of the shutdown flag, and
\* OS_IdleLoop_Impl, which returns when the adapter lets it
OS_IdleLoop ==
    /\ common.pc \in { "idle", "OS_IdleLoop_Impl" }
    /\ IF common.ShutdownFlag # OS_SHUTDOWN_MAGIC_NUMBER
       THEN MainStep([common EXCEPT !.pc = "OS_IdleLoop_Impl"], NoResult)
       ELSE MainStep([common EXCEPT !.pc = "idle"], MainDone("OS_IdleLoop", "void"))
    /\ UNCHANGED << table, internal, last_id_issued >>

(***************************************************************************)
(* OS_DeleteAllObjects (osapi-common.c), called by the main task.          *)
(***************************************************************************)
MaxSweeps == 1   \* calls of OS_DeleteAllObjects in a run

\* OS_ForEachObject goes through the types in the order of their numbers, and
\* through the slots of a type in the order of their indices
TypeOrder ==
    << OS_OBJECT_TYPE_OS_QUEUE, OS_OBJECT_TYPE_OS_BINSEM, OS_OBJECT_TYPE_OS_TIMEBASE,
       OS_OBJECT_TYPE_OS_TIMECB, OS_OBJECT_TYPE_OS_FILESYS >>

LastVisit == Len(TypeOrder) * MaxSlots
VisitType(k) == TypeOrder[((k - 1) \div MaxSlots) + 1]
VisitSlot(k) == (k - 1) % MaxSlots

\* the function OS_CleanUpObject calls for an object of the type: the switch
\* has no case for a file system, nor for a console
CleanUpCall(idtype) ==
    IF idtype = OS_OBJECT_TYPE_OS_QUEUE THEN "OS_QueueDelete"
    ELSE IF idtype = OS_OBJECT_TYPE_OS_BINSEM THEN "OS_BinSemDelete"
    ELSE IF idtype = OS_OBJECT_TYPE_OS_TIMEBASE THEN "OS_TimeBaseDelete"
    ELSE IF idtype = OS_OBJECT_TYPE_OS_TIMECB THEN "OS_TimerDelete"
    ELSE "none"

\* a delete wrapper called to its end: the lookup in EXCLUSIVE mode with its
\* retries used up, the adapter's delete with "status", OS_ObjectIdFinalizeDelete
DeleteCall(idtype, object_id, status) ==
    LET r == OS_ObjectIdGetById("EXCLUSIVE", idtype, object_id, OS_EXCLUSIVE_RETRIES)
        f == OS_ObjectIdFinalizeDelete(status, idtype, r.idx)
    IN  IF r.rc # "OS_SUCCESS"
        THEN [ rc |-> r.rc, tab |-> r.tab, int |-> internal[idtype] ]
        ELSE [ rc |-> f.rc, tab |-> f.tab, int |-> f.int ]

\* OS_CleanUpObject: the count of the objects seen, then the delete of the type
OS_CleanUpObject(object_id, ObjectCount, status) ==
    LET idtype == OS_ObjectIdToType_Impl(object_id)
        d == DeleteCall(idtype, object_id, status)
    IN  IF CleanUpCall(idtype) = "none"
        THEN [ ObjectCount |-> ObjectCount + 1, called |-> "none", rc |-> "none",
               tab |-> table[idtype], int |-> internal[idtype] ]
        ELSE [ ObjectCount |-> ObjectCount + 1, called |-> CleanUpCall(idtype), rc |-> d.rc,
               tab |-> d.tab, int |-> d.int ]

\* the test that ends the passes, with one pass less
LastPass_Early(ObjectCount, TryCount) == ObjectCount = 0 \/ TryCount > 3

\* the test that ends the passes, with one pass more
LastPass_Late(ObjectCount, TryCount) == ObjectCount = 0 \/ TryCount > 5

\* the test that ends the passes
LastPass(ObjectCount, TryCount) == ObjectCount = 0 \/ TryCount > 4

\* the top of the loop: a new pass begins
NewPass(c) ==
    [c EXCEPT !.pc = "OS_ForEachObject", !.ObjectCount = 0, !.TryCount = @ + 1,
              !.cursor = 1, !.pass_deleted = 0, !.called = "none"]

OS_DeleteAllObjects ==
    \/ /\ common.pc = "idle"
       /\ common.sweeps < MaxSweeps
       /\ MainStep(NewPass([common EXCEPT !.sweeps = @ + 1, !.TryCount = 0,
                                          !.delays = << >>]), NoResult)
       /\ UNCHANGED << table, internal, last_id_issued >>
    \* OS_ForEachObject at the next slot: the callback is called for an active slot
    \/ /\ common.pc = "OS_ForEachObject"
       /\ common.cursor <= LastVisit
       /\ LET idtype == VisitType(common.cursor)
              rec == table[idtype][VisitSlot(common.cursor)]
          IN  IF ~IsActive(idtype, rec)
              THEN /\ common' = [common EXCEPT !.cursor = @ + 1, !.called = "none"]
                   /\ result' = NoResult
                   /\ UNCHANGED << table, internal, deleted >>
              ELSE /\ LockFree(idtype)
                   /\ \E status \in AdapterCodes :
                        LET u == OS_CleanUpObject(rec.active_id, common.ObjectCount, status)
                        IN  /\ table' = [table EXCEPT ![idtype] = u.tab]
                            /\ internal' = [internal EXCEPT ![idtype] = u.int]
                            /\ deleted' = IF u.rc = "OS_SUCCESS"
                                          THEN deleted \cup { rec.active_id } ELSE deleted
                            /\ common' = [common EXCEPT
                                            !.cursor = @ + 1,
                                            !.ObjectCount = u.ObjectCount,
                                            !.called = u.called,
                                            !.pass_deleted =
                                                @ + (IF u.rc = "OS_SUCCESS" THEN 1 ELSE 0)]
                            /\ result' = IF u.called = "none" THEN NoResult
                                         ELSE Done(0, u.called, rec.active_id, u.rc, NoId,
                                                   EmptyStr)
       /\ UNCHANGED << last_id_issued, lock, th, unlock_errors, tvars, codec, registered >>
    \* the pass is over: the last one, or OS_TaskDelay(5) and the next pass; the
    \* empty loop after the passes goes on for ever when its condition holds
    \/ /\ common.pc = "OS_ForEachObject"
       /\ common.cursor > LastVisit
       /\ IF LastPass(common.ObjectCount, common.TryCount)
          THEN IF common.ObjectCount > 0 /\ common.TryCount < 5
               THEN MainStep([common EXCEPT !.pc = "spin"], NoResult)
               ELSE MainStep([common EXCEPT !.pc = "idle"],
                             MainDone("OS_DeleteAllObjects", "void"))
          ELSE MainStep(NewPass([common EXCEPT !.delays = Append(@, 5)]), NoResult)
       /\ UNCHANGED << table, internal, last_id_issued >>

(***************************************************************************)
(* Specifications.                                                         *)
(***************************************************************************)
Init ==
    /\ table = [ ty \in Types |-> [ s \in Slots |-> ZeroCommon ] ]
    /\ internal = [ ty \in Types |-> [ s \in Slots |-> ZeroInternal(ty) ] ]
    /\ last_id_issued = [ ty \in Types |-> 0 ]
    /\ lock = [ ty \in Types |-> 0 ]
    /\ th = [ t \in Threads |-> IdleTh ]
    /\ result = NoResult
    /\ deleted = {}
    /\ unlock_errors = 0
    /\ svc = NoSvc
    /\ ticks = 0
    /\ armed = [ s \in Slots |-> [ wait_time |-> 0, interval_time |-> 0 ] ]
    /\ calls = [ s \in Slots |-> << >> ]
    /\ ticks_before = 0
    /\ common = CommonInit
    /\ codec = NoCodec
    /\ registered = [ t \in Threads |-> TaskHandle(t) ]

\* binary semaphores: create, use, look up by name, delete
Next ==
    \E t \in Threads :
        \/ OS_BinSemCreate(t)
        \/ OS_BinSemDelete(t)
        \/ OS_BinSemTake(t)
        \/ OS_BinSemGetIdByName(t)

Spec == Init /\ [][Next]_vars

\* binary semaphores that are given while others are created and deleted
GiveNext ==
    \E t \in Threads :
        \/ OS_BinSemCreate(t)
        \/ OS_BinSemDelete(t)
        \/ OS_BinSemGive(t)

GiveSpec == Init /\ [][GiveNext]_vars

\* the objects are used once OS_API_Init has been called and the main task is
\* in no call
Started == common.Initialized /\ common.pc = "idle"

\* initialization, called again while binary semaphores are created
InitNext ==
    \/ OS_API_Init
    \/ Started /\ \E t \in Threads : OS_BinSemCreate(t)

InitSpec == Init /\ [][InitNext]_vars

\* the main task initializes and enters the idle loop while tasks call for the
\* shutdown; the main task goes on in the idle loop when it can
ShutdownNext ==
    \/ OS_API_Init
    \/ OS_IdleLoop
    \/ \E t \in Threads : OS_ApplicationShutdown(t)

ShutdownSpec == Init /\ [][ShutdownNext]_vars /\ WF_vars(OS_IdleLoop)

\* one object of every type of "live", created by task 1 with the serial number 1
DeleteAllStart(LiveSets) ==
    \E live \in LiveSets :
        /\ table = [ ty \in Types |-> [ s \in Slots |->
                       IF ty \in live /\ s = 1 % MaxSlots
                       THEN [ZeroCommon EXCEPT !.name_entry = "name",
                                 !.active_id = OS_ObjectIdCompose_Impl(ty, 1),
                                 !.creator = TaskHandle(1)]
                       ELSE ZeroCommon ] ]
        /\ internal = [ ty \in Types |-> [ s \in Slots |->
                          IF ty \in live /\ s = 1 % MaxSlots
                          THEN [ZeroInternal(ty) EXCEPT !.name = << "a" >>]
                          ELSE ZeroInternal(ty) ] ]
        /\ last_id_issued = [ ty \in Types |-> IF ty \in live THEN 1 ELSE 0 ]
        /\ lock = [ ty \in Types |-> 0 ]
        /\ th = [ t \in Threads |-> IdleTh ]
        /\ result = NoResult
        /\ deleted = {}
        /\ unlock_errors = 0
        /\ svc = NoSvc
        /\ ticks = 0
        /\ armed = [ s \in Slots |-> [ wait_time |-> 0, interval_time |-> 0 ] ]
        /\ calls = [ s \in Slots |-> << >> ]
        /\ ticks_before = 0
        /\ common = [CommonInit EXCEPT !.Initialized = TRUE]
        /\ codec = NoCodec
        /\ registered = [ t \in Threads |-> TaskHandle(t) ]

\* the main task deletes all objects while tasks take and give up references
DeleteAllNext ==
    \/ OS_DeleteAllObjects
    \/ \E t \in Threads : RefcountHolder(t)

\* objects of every type
DeleteAllSpec == DeleteAllStart(SUBSET Types) /\ [][DeleteAllNext]_vars

\* objects of the types OS_CleanUpObject has a delete for
RetrySpec ==
    DeleteAllStart(SUBSET { ty \in Types : CleanUpCall(ty) # "none" })
        /\ [][DeleteAllNext]_vars

\* a queue of the depth MaxDepth, created by task 1 with the serial number 1
MessageInit ==
    \E data_size \in QueueSizeArgs :
        /\ table = [ ty \in Types |-> [ s \in Slots |->
                       IF ty = OS_OBJECT_TYPE_OS_QUEUE /\ s = 1 % MaxSlots
                       THEN [ZeroCommon EXCEPT !.name_entry = "name",
                                 !.active_id = OS_ObjectIdCompose_Impl(ty, 1),
                                 !.creator = TaskHandle(1)]
                       ELSE ZeroCommon ] ]
        /\ internal = [ ty \in Types |-> [ s \in Slots |->
                          IF ty = OS_OBJECT_TYPE_OS_QUEUE /\ s = 1 % MaxSlots
                          THEN [ZeroInternal(ty) EXCEPT !.name = << "a" >>,
                                    !.max_depth = MaxDepth, !.max_size = data_size]
                          ELSE ZeroInternal(ty) ] ]
        /\ last_id_issued = [ ty \in Types |-> IF ty = OS_OBJECT_TYPE_OS_QUEUE THEN 1 ELSE 0 ]
        /\ lock = [ ty \in Types |-> 0 ]
        /\ th = [ t \in Threads |-> IdleTh ]
        /\ result = NoResult
        /\ deleted = {}
        /\ unlock_errors = 0
        /\ svc = NoSvc
        /\ ticks = 0
        /\ armed = [ s \in Slots |-> [ wait_time |-> 0, interval_time |-> 0 ] ]
        /\ calls = [ s \in Slots |-> << >> ]
        /\ ticks_before = 0
        /\ common = [CommonInit EXCEPT !.Initialized = TRUE]
        /\ codec = NoCodec
        /\ registered = [ t \in Threads |-> TaskHandle(t) ]

\* tasks putting messages to the queue and getting them
MessageNext ==
    \E t \in Threads :
        \/ OS_QueuePut(t)
        \/ OS_QueueGet(t)

MessageSpec == MessageInit /\ [][MessageNext]_vars

\* tasks creating binary semaphores and queues, with arguments of every kind
CreateNext ==
    \E t \in Threads :
        \/ OS_BinSemCreate(t)
        \/ OS_QueueCreate(t)

CreateSpec == Init /\ [][CreateNext]_vars

\* binary semaphores whose properties are read while they are created and
\* deleted, and a queue whose properties are read
InfoNext ==
    \E t \in Threads :
        \/ OS_BinSemCreate(t)
        \/ OS_BinSemDelete(t)
        \/ OS_BinSemGetInfo(t)
        \/ OS_QueueGetInfo(t)

\* a queue is there from the start
InfoSpec == DeleteAllStart({ { OS_OBJECT_TYPE_OS_QUEUE } }) /\ [][InfoNext]_vars

\* queues with holders of references
QueueNext ==
    \E t \in Threads :
        \/ OS_QueueCreate(t)
        \/ OS_QueueDelete(t)
        \/ RefcountHolder(t)

QueueSpec == Init /\ [][QueueNext]_vars

\* time bases, as application tasks see them
TimeBaseNext ==
    \E t \in Threads :
        \/ OS_TimeBaseCreate(t)
        \/ OS_TimeBaseDelete(t)
        \/ OS_TimeBaseGetIdByName(t)
        \/ OS_TimeBaseGetInfo(t)

TimeBaseSpec == Init /\ [][TimeBaseNext]_vars

\* file systems: fixed maps, checks that hold a reference, removal
FsNext ==
    \E t \in Threads :
        \/ OS_FileSysAddFixedMap(t)
        \/ OS_rmfs(t)
        \/ OS_chkfs(t)

FsSpec == Init /\ [][FsNext]_vars

\* file systems that are made, mounted and unmounted
MountNext ==
    \E t \in Threads :
        \/ OS_mkfs(t)
        \/ OS_FileSysAddFixedMap(t)
        \/ OS_mount(t)
        \/ OS_unmount(t)

MountSpec == Init /\ [][MountNext]_vars

\* file systems of every origin, mounted and unmounted
FlagsNext ==
    \E t \in Threads :
        \/ OS_mkfs(t)
        \/ OS_initfs(t)
        \/ OS_FileSysAddFixedMap(t)
        \/ OS_mount(t)
        \/ OS_unmount(t)

FlagsSpec == Init /\ [][FlagsNext]_vars

\* two file systems that are mounted: a fixed map of the physical path phys at
\* /m, made by task 1 with the serial number 1, and a volume made by OS_mkfs
\* and mounted at "m" by OS_mount, with the serial number 2
TranslateInit ==
    \E phys \in { << "/", "p" >>, << "/", "p", "p", "p", "/", "p" >> } :
        /\ table = [ ty \in Types |-> [ s \in Slots |->
                       IF ty = OS_OBJECT_TYPE_OS_FILESYS /\ s \in { 1 % MaxSlots, 2 % MaxSlots }
                       THEN [ZeroCommon EXCEPT !.name_entry = "name",
                                 !.active_id = OS_ObjectIdCompose_Impl(ty,
                                                  IF s = 1 % MaxSlots THEN 1 ELSE 2),
                                 !.creator = TaskHandle(1)]
                       ELSE ZeroCommon ] ]
        /\ internal = [ ty \in Types |-> [ s \in Slots |->
                          IF ty = OS_OBJECT_TYPE_OS_FILESYS /\ s = 1 % MaxSlots
                          THEN [ name |-> << "p" >>, volume_name |-> << "p" >>,
                                 system_mountpt |-> phys, virtual_mountpt |-> << "/", "m" >>,
                                 fstype |-> "FS_BASED",
                                 flags |-> { "IS_FIXED", "IS_READY" } \cup Mounted ]
                          ELSE IF ty = OS_OBJECT_TYPE_OS_FILESYS /\ s = 2 % MaxSlots
                          THEN [ name |-> << "q" >>, volume_name |-> RamVolume,
                                 system_mountpt |-> << "/", "r" >>,
                                 virtual_mountpt |-> << "m" >>,
                                 fstype |-> "VOLATILE_DISK",
                                 flags |-> { "IS_READY" } \cup Mounted ]
                          ELSE ZeroInternal(ty) ] ]
        /\ last_id_issued = [ ty \in Types |->
                                IF ty = OS_OBJECT_TYPE_OS_FILESYS THEN 2 ELSE 0 ]
        /\ lock = [ ty \in Types |-> 0 ]
        /\ th = [ t \in Threads |-> IdleTh ]
        /\ result = NoResult
        /\ deleted = {}
        /\ unlock_errors = 0
        /\ svc = NoSvc
        /\ ticks = 0
        /\ armed = [ s \in Slots |-> [ wait_time |-> 0, interval_time |-> 0 ] ]
        /\ calls = [ s \in Slots |-> << >> ]
        /\ ticks_before = 0
        /\ common = [CommonInit EXCEPT !.Initialized = TRUE]
        /\ codec = NoCodec
        /\ registered = [ t \in Threads |-> TaskHandle(t) ]

\* paths are translated while the file systems are unmounted and mounted
TranslateNext ==
    \E t \in Threads :
        \/ OS_TranslatePath(t)
        \/ OS_unmount(t)
        \/ OS_mount(t)

TranslateSpec == TranslateInit /\ [][TranslateNext]_vars

(***************************************************************************)
(* OS_Milli2Ticks.  The numbers of its arithmetic are above the range of   *)
(* an int: a number is kept as its digits to the base 1000, the lowest     *)
(* first, without zeros at the top.                                        *)
(***************************************************************************)
Base == 1000

RECURSIVE Digits(_)
Digits(n) == IF n = 0 THEN << >> ELSE << n % Base >> \o Digits(n \div Base)

RECURSIVE Norm(_)
Norm(a) ==
    IF a = << >> THEN a
    ELSE IF a[Len(a)] = 0 THEN Norm(SubSeq(a, 1, Len(a) - 1)) ELSE a

\* the number written in groups of three decimal digits, the highest first
Dec(groups) == Norm([ i \in 1 .. Len(groups) |-> groups[Len(groups) - i + 1] ])

RECURSIVE AddCarry(_, _, _)
AddCarry(a, b, c) ==
    IF a = << >> /\ b = << >>
    THEN IF c = 0 THEN << >> ELSE << c >>
    ELSE LET x == (IF a = << >> THEN 0 ELSE a[1]) + (IF b = << >> THEN 0 ELSE b[1]) + c
         IN  << x % Base >> \o AddCarry(IF a = << >> THEN a ELSE Tail(a),
                                        IF b = << >> THEN b ELSE Tail(b), x \div Base)

BigAdd(a, b) == Norm(AddCarry(a, b, 0))

RECURSIVE MulDigit(_, _, _)
MulDigit(a, d, c) ==
    IF a = << >>
    THEN IF c = 0 THEN << >> ELSE << c >>
    ELSE LET x == a[1] * d + c
         IN  << x % Base >> \o MulDigit(Tail(a), d, x \div Base)

RECURSIVE BigMul(_, _)
BigMul(a, b) ==
    IF b = << >> THEN << >>
    ELSE Norm(AddCarry(MulDigit(a, b[1], 0), << 0 >> \o BigMul(a, Tail(b)), 0))

BigLessEq(a, b) ==
    IF Len(a) # Len(b) THEN Len(a) < Len(b)
    ELSE LET diff == { i \in 1 .. Len(a) : a[i] # b[i] }
         IN  diff = {} \/ LET k == CHOOSE i \in diff : \A j \in diff : j <= i
                          IN  a[k] < b[k]

\* a - b, for b <= a
RECURSIVE SubBorrow(_, _, _)
SubBorrow(a, b, c) ==
    IF a = << >> THEN << >>
    ELSE LET x == a[1] - (IF b = << >> THEN 0 ELSE b[1]) - c
         IN  << x % Base >> \o SubBorrow(Tail(a), IF b = << >> THEN b ELSE Tail(b),
                                         IF x < 0 THEN 1 ELSE 0)

BigSub(a, b) == Norm(SubBorrow(a, b, 0))

\* a modulo m: what an unsigned type that has m values keeps of a
RECURSIVE Wrap(_, _)
Wrap(a, m) == IF BigLessEq(m, a) THEN Wrap(BigSub(a, m), m) ELSE a

\* the number as an int, for a number up to INT_MAX
RECURSIVE BigInt(_)
BigInt(a) == IF a = << >> THEN 0 ELSE a[1] + Base * BigInt(Tail(a))

Two32 == Dec(<< 4, 294, 967, 296 >>)
Two64 == Dec(<< 18, 446, 744, 73, 709, 551, 616 >>)
INT_MAX == Dec(<< 2, 147, 483, 647 >>)

\* OS_Milli2Ticks with num_of_ticks of type uint32
OS_Milli2Ticks_U32(milli_seconds, TicksPerSecond) ==
    LET product == Wrap(BigMul(milli_seconds, Digits(TicksPerSecond)), Two32)
        sum == Wrap(BigAdd(product, Digits(999)), Two32)
        num_of_ticks == IF sum = << >> THEN sum ELSE Tail(sum)
    IN  IF BigLessEq(num_of_ticks, INT_MAX)
        THEN [ return_code |-> "OS_SUCCESS", ticks |-> BigInt(num_of_ticks) ]
        ELSE [ return_code |-> "OS_ERROR", ticks |-> 0 ]

\* OS_Milli2Ticks: milli_seconds is a uint32, TicksPerSecond an int above 0,
\* the product and the sum are made in uint64; the division by 1000 takes the
\* lowest digit away
OS_Milli2Ticks(milli_seconds, TicksPerSecond) ==
    LET product == Wrap(BigMul(milli_seconds, Digits(TicksPerSecond)), Two64)
        sum == Wrap(BigAdd(product, Digits(999)), Two64)
        num_of_ticks == IF sum = << >> THEN sum ELSE Tail(sum)
    IN  IF BigLessEq(num_of_ticks, INT_MAX)
        THEN [ return_code |-> "OS_SUCCESS", ticks |-> BigInt(num_of_ticks) ]
        ELSE [ return_code |-> "OS_ERROR", ticks |-> 0 ]

MilliArgs ==
    { Dec(<< 0 >>), Dec(<< 1 >>), Dec(<< 2 >>), Dec(<< 999 >>), Dec(<< 1, 0 >>),
      Dec(<< 1, 1 >>), Dec(<< 2, 147, 483 >>), Dec(<< 2, 147, 484 >>),
      Dec(<< 4, 294, 968 >>), Dec(<< 2, 147, 483, 647 >>), Dec(<< 2, 147, 483, 648 >>),
      Dec(<< 4, 294, 967, 295 >>) }
TicksArgs == { 1, 60, 100, 1000, 1001, 1000000, 2147483647 }

\* what a call of the adapter that waits gives back: "status" and "ticks" are
\* what OS_Milli2Ticks gave it, "impl" the calls of the operating system made
WaitDone(t, op, rc, msecs, m, impl) ==
    [ task |-> t, op |-> op, id |-> NoId, ret |-> rc, out |-> NoId, str |-> EmptyStr,
      msecs |-> msecs, status |-> m.return_code, ticks |-> m.ticks, impl |-> impl ]

OS_BinSemTimedWait_Impl(t) ==
    /\ Ready(t)
    /\ \E msecs \in MilliArgs, take \in AdapterCodes :
         LET m == OS_Milli2Ticks(msecs, common.TicksPerSecond)
         IN  IF m.return_code = "OS_SUCCESS"
             THEN Return(t, WaitDone(t, "OS_BinSemTimedWait_Impl", take, msecs, m,
                                     << << "OS_VxWorks_GenericSemTake", m.ticks >> >>))
             ELSE Return(t, WaitDone(t, "OS_BinSemTimedWait_Impl", m.return_code, msecs, m,
                                     << >>))
    /\ UNCHANGED << table, internal, last_id_issued, lock, deleted, unlock_errors >>

OS_TaskDelay_Impl(t) ==
    /\ Ready(t)
    /\ \E milli_second \in MilliArgs, delay \in { "OK", "ERROR" } :
         LET m == OS_Milli2Ticks(milli_second, common.TicksPerSecond)
         IN  IF m.return_code # "OS_SUCCESS"
             THEN Return(t, WaitDone(t, "OS_TaskDelay_Impl", "OS_ERROR", milli_second, m,
                                     << >>))
             ELSE Return(t, WaitDone(t, "OS_TaskDelay_Impl",
                                     IF delay # "OK" THEN "OS_ERROR" ELSE "OS_SUCCESS",
                                     milli_second, m, << << "taskDelay", m.ticks >> >>))
    /\ UNCHANGED << table, internal, last_id_issued, lock, deleted, unlock_errors >>

\* the adapter has set the number of ticks in a second
MilliInit ==
    \E TicksPerSecond \in TicksArgs :
        /\ table = [ ty \in Types |-> [ s \in Slots |-> ZeroCommon ] ]
        /\ internal = [ ty \in Types |-> [ s \in Slots |-> ZeroInternal(ty) ] ]
        /\ last_id_issued = [ ty \in Types |-> 0 ]
        /\ lock = [ ty \in Types |-> 0 ]
        /\ th = [ t \in Threads |-> IdleTh ]
        /\ result = NoResult
        /\ deleted = {}
        /\ unlock_errors = 0
        /\ svc = NoSvc
        /\ ticks = 0
        /\ armed = [ s \in Slots |-> [ wait_time |-> 0, interval_time |-> 0 ] ]
        /\ calls = [ s \in Slots |-> << >> ]
        /\ ticks_before = 0
        /\ common = [CommonInit EXCEPT !.Initialized = TRUE,
                                       !.MicroSecPerTick = OS_SharedGlobalVars_MicroSecPerTick,
                                       !.TicksPerSecond = TicksPerSecond]
        /\ codec = NoCodec
        /\ registered = [ t \in Threads |-> TaskHandle(t) ]

MilliNext ==
    \E t \in Threads :
        \/ OS_BinSemTimedWait_Impl(t)
        \/ OS_TaskDelay_Impl(t)

MilliSpec == MilliInit /\ [][MilliNext]_vars

\* a time base that task 1 has created, and its servicing task, task 2, which
\* has registered the handle of the time base and is inside a timer callback
ContextInit ==
    LET TB == OS_OBJECT_TYPE_OS_TIMEBASE
        o == 1 % OS_GetMaxForObjectType(TB)
    IN  /\ table = [ ty \in Types |-> [ s \in Slots |->
                       IF ty = TB /\ s = o
                       THEN [ZeroCommon EXCEPT !.name_entry = "name",
                                 !.active_id = OS_ObjectIdCompose_Impl(TB, 1),
                                 !.creator = TaskHandle(1)]
                       ELSE ZeroCommon ] ]
        /\ internal = [ ty \in Types |-> [ s \in Slots |->
                          IF ty = TB /\ s = o
                          THEN [ZeroInternal(TB) EXCEPT
                                   !.name = << "a" >>,
                                   !.accuracy_usec = OS_SharedGlobalVars_MicroSecPerTick]
                          ELSE ZeroInternal(ty) ] ]
        /\ last_id_issued = [ ty \in Types |-> IF ty = TB THEN 1 ELSE 0 ]
        /\ lock = [ ty \in Types |-> 0 ]
        /\ th = [ t \in Threads |-> IdleTh ]
        /\ result = NoResult
        /\ deleted = {}
        /\ unlock_errors = 0
        /\ svc = NoSvc
        /\ ticks = 0
        /\ armed = [ s \in Slots |-> [ wait_time |-> 0, interval_time |-> 0 ] ]
        /\ calls = [ s \in Slots |-> << >> ]
        /\ ticks_before = 0
        /\ common = [CommonInit EXCEPT !.Initialized = TRUE]
        /\ codec = NoCodec
        /\ registered = [ t \in Threads |->
                            IF t = 2 THEN OS_ObjectIdCompose_Impl(TB, 1) ELSE TaskHandle(t) ]

\* the timer API, called by an application task and from a timer callback
ContextNext ==
    \E t \in Threads :
        \/ OS_TimeBaseCreate(t)
        \/ OS_TimeBaseSet(t)
        \/ OS_TimeBaseDelete(t)
        \/ OS_TimeBaseGetIdByName(t)
        \/ OS_TimeBaseGetInfo(t)

ContextSpec == ContextInit /\ [][ContextNext]_vars

\* the calls that look an object up in GLOBAL mode, with the time bases they
\* need created, and the file systems mounted at the start
GlobalNext ==
    \E t \in Threads :
        \/ OS_TimeBaseCreate(t)
        \/ OS_TimeBaseSet(t)
        \/ OS_TranslatePath(t)
        \/ OS_fsBlocksFree(t)
        \/ OS_FS_GetPhysDriveName(t)

GlobalSpec == TranslateInit /\ [][GlobalNext]_vars

\* a time base that has been created, with its timers armed, and its servicing task
TimerSerials == { 1, 2 }
TimerSlot(n) == n % OS_GetMaxForObjectType(OS_OBJECT_TYPE_OS_TIMECB)
TimerBaseSlot == 1 % OS_GetMaxForObjectType(OS_OBJECT_TYPE_OS_TIMEBASE)

\* the product of a number below 2^31 and a small factor, as a uint32 and the
\* number of times 2^32 is in it
U32Mul(n, k) ==
    LET lo == (n % Half) * k
        hi == (n \div Half) * k + (lo \div Half)
    IN  [ wraps |-> hi \div Half, rest |-> << hi % Half, lo % Half >> ]

\* the time base has been given "before" ticks of TickUsec since its creation
TimerStart(before, Waits, Intervals) ==
    \E cfg \in [ TimerSerials -> [ wait_time : Waits, interval_time : Intervals,
                                   callback_ptr : CallbackPtrs ] ],
       first_cb \in { OS_OBJECT_ID_UNDEFINED,
                      OS_ObjectIdCompose_Impl(OS_OBJECT_TYPE_OS_TIMECB, 1) } :
        /\ table =
             [ ty \in Types |-> [ s \in Slots |->
                 IF ty = OS_OBJECT_TYPE_OS_TIMEBASE /\ s = TimerBaseSlot
                 THEN [ZeroCommon EXCEPT !.name_entry = "name",
                           !.active_id = OS_ObjectIdCompose_Impl(ty, 1),
                           !.creator = TaskHandle(1)]
                 ELSE IF ty = OS_OBJECT_TYPE_OS_TIMECB
                         /\ \E n \in TimerSerials : s = TimerSlot(n)
                 THEN [ZeroCommon EXCEPT !.name_entry = "name",
                           !.active_id = OS_ObjectIdCompose_Impl(ty,
                               CHOOSE n \in TimerSerials : s = TimerSlot(n)),
                           !.creator = TaskHandle(1)]
                 ELSE ZeroCommon ] ]
        /\ internal =
             [ ty \in Types |-> [ s \in Slots |->
                 IF ty = OS_OBJECT_TYPE_OS_TIMEBASE /\ s = TimerBaseSlot
                 THEN [ZeroInternal(ty) EXCEPT !.name = << "a" >>,
                           !.accuracy_usec = OS_SharedGlobalVars_MicroSecPerTick,
                           !.freerun_time = U32Mul(before, TickUsec).rest,
                           !.first_cb = first_cb]
                 ELSE IF ty = OS_OBJECT_TYPE_OS_TIMECB
                         /\ \E n \in TimerSerials : s = TimerSlot(n)
                 THEN LET n == CHOOSE m \in TimerSerials : s = TimerSlot(m)
                      IN  [ZeroInternal(ty) EXCEPT !.name = << "t" >>,
                              !.wait_time = cfg[n].wait_time,
                              !.interval_time = cfg[n].interval_time,
                              !.callback_ptr = cfg[n].callback_ptr,
                              !.next_ref = TimerSlot(IF n = 1 THEN 2 ELSE 1)]
                 ELSE ZeroInternal(ty) ] ]
        /\ last_id_issued = [ ty \in Types |->
                                IF ty = OS_OBJECT_TYPE_OS_TIMEBASE THEN 1
                                ELSE IF ty = OS_OBJECT_TYPE_OS_TIMECB THEN 2 ELSE 0 ]
        /\ lock = [ ty \in Types |-> 0 ]
        /\ th = [ t \in Threads |-> IdleTh ]
        /\ result = NoResult
        /\ deleted = {}
        /\ unlock_errors = 0
        /\ svc = [NoSvc EXCEPT !.pc = "start",
                     !.timebase_id = OS_ObjectIdCompose_Impl(OS_OBJECT_TYPE_OS_TIMEBASE, 1)]
        /\ ticks = 0
        /\ armed = [ s \in Slots |->
                       IF \E n \in TimerSerials : s = TimerSlot(n)
                       THEN LET n == CHOOSE m \in TimerSerials : s = TimerSlot(m)
                            IN  [ wait_time |-> cfg[n].wait_time,
                                  interval_time |-> cfg[n].interval_time ]
                       ELSE [ wait_time |-> 0, interval_time |-> 0 ] ]
        /\ calls = [ s \in Slots |-> << >> ]
        /\ ticks_before = before
        /\ common = CommonInit
        /\ codec = NoCodec
        /\ registered = [ t \in Threads |-> TaskHandle(t) ]

TimerInit == TimerStart(0, WaitTimes, IntervalTimes)

TimerNext == OS_TimeBase_CallbackThread

TimerSpec == TimerInit /\ [][TimerNext]_vars

\* a time base that is new, or has run for so long that its free-running count
\* is two ticks below 2^32, with its servicing task and tasks that read the count
TicksBefore == { 0, 4294966 }

FreeRunInit == \E before \in TicksBefore : TimerStart(before, { 1000 }, { 0, 1000 })

FreeRunNext ==
    \/ OS_TimeBase_CallbackThread
    \/ \E t \in Threads : OS_TimeBaseGetFreeRun(t)

FreeRunSpec == FreeRunInit /\ [][FreeRunNext]_vars

\* creates and deletes of two types
CreateDeleteNext ==
    \E t \in Threads :
        \/ OS_QueueCreate(t)
        \/ OS_QueueDelete(t)
        \/ OS_TimeBaseCreate(t)
        \/ OS_TimeBaseDelete(t)

CreateDeleteSpec == Init /\ [][CreateDeleteNext]_vars

\* binary semaphores in a system that has run for long: the serial counter of
\* the type is at its top, and a caller still holds the handle of serial 1,
\* which it deleted
WrapInit ==
    /\ table = [ ty \in Types |-> [ s \in Slots |-> ZeroCommon ] ]
    /\ internal = [ ty \in Types |-> [ s \in Slots |-> ZeroInternal(ty) ] ]
    /\ last_id_issued = [ ty \in Types |->
                            IF ty = OS_OBJECT_TYPE_OS_BINSEM THEN OS_OBJECT_INDEX_MASK ELSE 0 ]
    /\ lock = [ ty \in Types |-> 0 ]
    /\ th = [ t \in Threads |-> IdleTh ]
    /\ result = NoResult
    /\ deleted = { OS_ObjectIdCompose_Impl(OS_OBJECT_TYPE_OS_BINSEM, 1) }
    /\ unlock_errors = 0
    /\ svc = NoSvc
    /\ ticks = 0
    /\ armed = [ s \in Slots |-> [ wait_time |-> 0, interval_time |-> 0 ] ]
    /\ calls = [ s \in Slots |-> << >> ]
    /\ ticks_before = 0
    /\ common = CommonInit
    /\ codec = NoCodec
    /\ registered = [ t \in Threads |-> TaskHandle(t) ]

WrapSpec == WrapInit /\ [][Next]_vars

\* the id codec put to a legal type and a serial number of the low field
LegalTypes == 1 .. (OS_OBJECT_TYPE_USER - 1)
SerialArgs == { 0, 1, 2, 3, 255, 256, 32767, 32768, 65534, OS_OBJECT_INDEX_MASK }

CodecRoundTrip ==
    \E idtype \in LegalTypes, idserial \in SerialArgs :
        LET id == OS_ObjectIdCompose_Impl(idtype, idserial)
        IN  /\ codec' = [ idtype |-> idtype, idserial |-> idserial, id |-> id,
                         type |-> OS_ObjectIdToType_Impl(id),
                         serial |-> OS_ObjectIdToSerialNumber_Impl(id),
                         index |-> OS_ObjectIdToArrayIndex(idtype, id) ]
            /\ UNCHANGED << idvars, tvars, common, registered >>

CodecSpec == Init /\ [][CodecRoundTrip]_vars

(***************************************************************************)
(* Properties.                                                             *)
(***************************************************************************)
\* no lookup by id, in any lock mode, resolves the handle h
Unresolvable(h) ==
    \A mode \in LockModes :
        OS_ObjectIdGetById(mode, OS_ObjectIdToType_Impl(h), h, 0).rc = "OS_ERR_INVALID_ID"

\* the slot the serial number of h belongs to
SlotOf(h) == OS_ObjectIdToSerialNumber_Impl(h) % MaxSlots

\* C1 as stated: once Delete(h) has returned OS_SUCCESS, every later lookup of h
\* returns OS_ERR_INVALID_ID, forever: a handle that is deleted and unresolvable
\* stays unresolvable whatever Creates follow.
C1_StaleForever ==
    [][\A h \in deleted : Unresolvable(h) => Unresolvable(h)']_vars

\* C1 amended: once Delete(h) has returned OS_SUCCESS, every lookup of h, in any
\* lock mode and through OS_BinSemTake, returns OS_ERR_INVALID_ID for as long as
\* h has not been issued again; a later Create gets a serial number above the
\* last one issued, so that the re-allocation of the slot of h gives a different
\* handle, until the serial counter has reached its top and starts anew.
C1_StaleUntilReissued ==
    /\ [](\A h \in deleted : Unresolvable(h))
    /\ [][/\ \A t \in Threads :
               /\ (Ready(t) /\ result'.task = t /\ result'.op = "OS_BinSemTake"
                     /\ result'.id \in deleted)
                    => result'.ret = "OS_ERR_INVALID_ID"
               /\ (Ready(t) /\ th'[t].op = "OS_BinSemTake") => th'[t].id \notin deleted
          /\ LET last == last_id_issued[OS_OBJECT_TYPE_OS_BINSEM]
                 new == last_id_issued'[OS_OBJECT_TYPE_OS_BINSEM]
             IN  new # last =>
                   \/ new > last
                   \/ last > OS_OBJECT_INDEX_MASK - MaxSlots /\ new <= MaxSlots]_vars

\* a stale handle was refused by OS_BinSemTake while its slot holds a new object
C1_Witness ==
    /\ result.op = "OS_BinSemTake"
    /\ result.ret = "OS_ERR_INVALID_ID"
    /\ result.id \in deleted
    /\ IsActive(OS_OBJECT_TYPE_OS_BINSEM, table[OS_OBJECT_TYPE_OS_BINSEM][SlotOf(result.id)])

\* the active slots of a type that carry the name n
Named(idtype, n) ==
    { s \in Slots : IsActive(idtype, table[idtype][s]) /\ OS_ObjectNameMatch(n, idtype, s) }

\* the tables and the type-lock of a type are left as they were, the lock free
Untouched(idtype) ==
    /\ table'[idtype] = table[idtype]
    /\ internal'[idtype] = internal[idtype]
    /\ last_id_issued'[idtype] = last_id_issued[idtype]
    /\ lock[idtype] = 0
    /\ lock'[idtype] = 0

\* C4: a Create with a non-empty name that an active object of the type has fails
\* with OS_ERR_NAME_TAKEN, reserves no slot and leaves the type-lock released; no
\* two active objects of a type ever have the same non-empty name, so that of two
\* Creates with one name at most one succeeds.
C4_NameTaken ==
    /\ [](\A n \in Names \ { EmptyStr } :
             Cardinality(Named(OS_OBJECT_TYPE_OS_BINSEM, n)) <= 1)
    /\ [][\A t \in Threads :
            /\ (result'.task = t /\ result'.op = "OS_BinSemCreate"
                  /\ result'.ret = "OS_ERR_NAME_TAKEN")
                 => /\ result'.str # EmptyStr
                    /\ Named(OS_OBJECT_TYPE_OS_BINSEM, result'.str) # {}
                    /\ Untouched(OS_OBJECT_TYPE_OS_BINSEM)
            /\ (Ready(t) /\ th'[t].op = "OS_BinSemCreate" /\ th'[t].pc = "Create_Impl")
                 => LET n == internal'[OS_OBJECT_TYPE_OS_BINSEM][th'[t].slot].name
                    IN  n = EmptyStr \/ Named(OS_OBJECT_TYPE_OS_BINSEM, n) = {}]_vars

\* a Create was refused for its name while the object of that name is active
C4_Witness ==
    /\ result.op = "OS_BinSemCreate"
    /\ result.ret = "OS_ERR_NAME_TAKEN"
    /\ Named(OS_OBJECT_TYPE_OS_BINSEM, result.str) # {}

\* the slots of a type that are not free
NonFree(idtype) ==
    { s \in Slots : table[idtype][s].active_id # OS_OBJECT_ID_UNDEFINED }

\* C5: when every slot of the table is non-free, Create returns
\* OS_ERR_NO_FREE_IDS with the type-lock released and the table unchanged; a
\* Create reserves a slot only when one is free, and the non-free slots never
\* exceed the capacity.
C5_NoFreeIds ==
    /\ [](Cardinality(NonFree(OS_OBJECT_TYPE_OS_BINSEM))
             <= OS_GetMaxForObjectType(OS_OBJECT_TYPE_OS_BINSEM))
    /\ [][\A t \in Threads :
            /\ (result'.task = t /\ result'.op = "OS_BinSemCreate"
                  /\ result'.ret = "OS_ERR_NO_FREE_IDS")
                 => /\ NonFree(OS_OBJECT_TYPE_OS_BINSEM) = Slots
                    /\ Untouched(OS_OBJECT_TYPE_OS_BINSEM)
            /\ (Ready(t) /\ th'[t].op = "OS_BinSemCreate" /\ th'[t].pc = "Create_Impl")
                 => NonFree(OS_OBJECT_TYPE_OS_BINSEM) # Slots
            /\ (Ready(t) /\ result'.task = t /\ result'.op = "OS_BinSemCreate"
                  /\ NonFree(OS_OBJECT_TYPE_OS_BINSEM) = Slots)
                 => result'.ret \in { "OS_ERR_NO_FREE_IDS", "OS_ERR_NAME_TAKEN",
                                      "OS_INVALID_POINTER", "OS_ERR_NAME_TOO_LONG" }]_vars

\* a Create was refused because the table is full
C5_Witness ==
    /\ result.op = "OS_BinSemCreate"
    /\ result.ret = "OS_ERR_NO_FREE_IDS"
    /\ \A s \in Slots : IsActive(OS_OBJECT_TYPE_OS_BINSEM, table[OS_OBJECT_TYPE_OS_BINSEM][s])

\* C2: in every reachable state, for every type and slot, refcount > 0 implies
\* that the slot is active: its active_id is a handle of that type, neither
\* undefined nor the reserved sentinel.
C2_RefcountImpliesActive ==
    \A ty \in Types : \A s \in Slots :
        table[ty][s].refcount > 0
            => /\ IsActive(ty, table[ty][s])
               /\ OS_ObjectIdToType_Impl(table[ty][s].active_id) = ty

\* a file system is referenced by OS_chkfs while OS_rmfs waits for it
C2_Witness ==
    \E s \in Slots : \E t \in Threads :
        /\ table[OS_OBJECT_TYPE_OS_FILESYS][s].refcount > 0
        /\ At(t, "OS_rmfs", "Retry")

\* the type of the objects a call works on
OpType(op) ==
    IF op \in { "OS_QueueCreate", "OS_QueueDelete", "OS_QueueGetInfo", "RefcountHolder" }
    THEN OS_OBJECT_TYPE_OS_QUEUE
    ELSE IF op \in { "OS_BinSemCreate", "OS_BinSemDelete", "OS_BinSemTake",
                     "OS_BinSemGetInfo", "OS_BinSemGetIdByName" }
    THEN OS_OBJECT_TYPE_OS_BINSEM
    ELSE IF op \in { "OS_TimeBaseCreate", "OS_TimeBaseSet", "OS_TimeBaseDelete",
                     "OS_TimeBaseGetIdByName", "OS_TimeBaseGetInfo",
                     "OS_TimeBaseGetFreeRun" }
    THEN OS_OBJECT_TYPE_OS_TIMEBASE
    ELSE OS_OBJECT_TYPE_OS_FILESYS

\* the exclusive-request flag of a record is set
ExclReq(rec) == BitAnd(rec.flags, OS_OBJECT_EXCL_REQ_FLAG) # 0

\* C3: a Delete of a queue whose refcount is above zero sets the
\* exclusive-request flag and waits with the type-lock released; after 4 such
\* waits it returns OS_ERR_OBJECT_IN_USE with the type-lock released and the
\* queue still active; no queue stops being active while a reference is held.
C3_ExclusiveDelete ==
    [][\A t \in Threads :
         LET Q == OS_OBJECT_TYPE_OS_QUEUE
         IN  /\ (result'.task = t /\ result'.op = "OS_QueueDelete"
                   /\ result'.ret = "OS_ERR_OBJECT_IN_USE")
                  => /\ At(t, "OS_QueueDelete", "Retry")
                     /\ th[t].attempts = 4
                     /\ table'[Q][SlotOf(result'.id)].active_id = result'.id
                     /\ table'[Q][SlotOf(result'.id)].refcount > 0
                     /\ ExclReq(table'[Q][SlotOf(result'.id)])
                     /\ lock'[Q] = 0
             /\ (th'[t] # th[t] /\ th'[t].op = "OS_QueueDelete" /\ th'[t].pc = "Retry")
                  => /\ table'[Q][SlotOf(th'[t].id)].refcount > 0
                     /\ ExclReq(table'[Q][SlotOf(th'[t].id)])
                     /\ th'[t].attempts <= 4
                     /\ lock'[Q] = 0
             /\ (At(t, "OS_QueueDelete", "Retry") /\ th'[t] # th[t]
                   /\ table[Q][SlotOf(th[t].id)].active_id = th[t].id
                   /\ table[Q][SlotOf(th[t].id)].refcount > 0)
                  => \/ th'[t].pc = "Retry"
                     \/ result'.task = t /\ result'.ret = "OS_ERR_OBJECT_IN_USE"
             /\ \A s \in Slots :
                  (IsActive(Q, table[Q][s]) /\ ~IsActive(Q, table'[Q][s]))
                     => table[Q][s].refcount = 0]_vars

\* a Delete gave up on a queue that another task holds a reference of
C3_Witness ==
    /\ result.op = "OS_QueueDelete"
    /\ result.ret = "OS_ERR_OBJECT_IN_USE"
    /\ \E t \in Threads : At(t, "RefcountHolder", "Ref") /\ th[t].id = result.id
    /\ IsActive(OS_OBJECT_TYPE_OS_QUEUE, table[OS_OBJECT_TYPE_OS_QUEUE][SlotOf(result.id)])

\* C6: when the adapter's create or delete returns an error, the wrapper returns
\* that error, the type-lock is released and the table is as before the call: a
\* failed Create leaves the slot free and the output handle undefined, a failed
\* Delete leaves the object active and resolvable by its handle.
C6_AdapterError ==
    [][\A t \in Threads :
         LET ty == OpType(th[t].op)
             i == th[t].slot
         IN  /\ (th[t].pc = "Create_Impl" /\ result'.task = t /\ result'.ret # "OS_SUCCESS")
                  => /\ result'.ret \in AdapterCodes
                     /\ table'[ty][i].active_id = OS_OBJECT_ID_UNDEFINED
                     /\ \A s \in Slots \ { i } : table'[ty][s] = table[ty][s]
                     /\ result'.out = OS_OBJECT_ID_UNDEFINED
                     /\ lock[ty] = t
                     /\ lock'[ty] = 0
             /\ (th[t].pc = "Delete_Impl" /\ result'.task = t /\ result'.ret # "OS_SUCCESS")
                  => /\ result'.ret \in AdapterCodes
                     /\ table'[ty] = table[ty]
                     /\ internal'[ty] = internal[ty]
                     /\ table'[ty][i].active_id = th[t].id
                     /\ IsActive(ty, table'[ty][i])
                     /\ th[t].id \notin deleted'
                     /\ lock[ty] = t
                     /\ lock'[ty] = 0]_vars

\* a Delete failed in the adapter and its object is still there
C6_Witness ==
    /\ result.op = "OS_TimeBaseDelete"
    /\ result.ret = "OS_ERROR"
    /\ OS_ObjectIdGetById("NONE", OS_OBJECT_TYPE_OS_TIMEBASE, result.id, 0).rc = "OS_SUCCESS"
    /\ lock[OS_OBJECT_TYPE_OS_TIMEBASE] = 0

\* the slots of a type that are reserved
Reserved(idtype) ==
    { s \in Slots : table[idtype][s].active_id = OS_OBJECT_ID_RESERVED }

\* C7: while a slot is reserved, between AllocateNew and FinalizeNew, the task
\* that reserved it holds the type-lock, and every lookup, by id or by name,
\* runs while no slot is reserved and resolves to a published handle.
C7_ReservedUnseen ==
    /\ [](\A s \in Reserved(OS_OBJECT_TYPE_OS_TIMEBASE) :
             \E t \in Threads :
                 /\ lock[OS_OBJECT_TYPE_OS_TIMEBASE] = t
                 /\ At(t, "OS_TimeBaseCreate", "Create_Impl")
                 /\ th[t].slot = s)
    /\ [][\A t \in Threads :
            LET TB == OS_OBJECT_TYPE_OS_TIMEBASE
            IN  /\ (th[t].pc \in { "idle", "Retry" }
                      /\ th'[t].pc \in { "Delete_Impl", "Locked" })
                     => /\ Reserved(TB) = {}
                        /\ table[TB][th'[t].slot].active_id = th'[t].id
                        /\ IsActive(TB, table[TB][th'[t].slot])
                /\ (result'.task = t /\ result'.op = "OS_TimeBaseGetIdByName"
                      /\ result'.ret = "OS_SUCCESS")
                     => /\ Reserved(TB) = {}
                        /\ \E s \in Slots : /\ IsActive(TB, table[TB][s])
                                            /\ table[TB][s].active_id = result'.out]_vars

\* a slot is reserved next to a published one
C7_Witness ==
    \E s \in Slots : \E o \in Slots :
        /\ table[OS_OBJECT_TYPE_OS_TIMEBASE][s].active_id = OS_OBJECT_ID_RESERVED
        /\ IsActive(OS_OBJECT_TYPE_OS_TIMEBASE, table[OS_OBJECT_TYPE_OS_TIMEBASE][o])
        /\ lock[OS_OBJECT_TYPE_OS_TIMEBASE] # 0

Holders(s) == { t \in Threads : At(t, "OS_chkfs", "Ref") /\ th[t].slot = s }

\* C9: a lookup in REFCOUNT mode returns with the type-lock released and the
\* refcount one higher; the decrement is made of a refcount above zero only;
\* OS_chkfs gives back the reference it took whatever the adapter returns, so
\* that the refcount of a file system is the number of calls of OS_chkfs at
\* work on it, and never goes below zero.
C9_RefcountBalance ==
    /\ [](\A s \in Slots :
             table[OS_OBJECT_TYPE_OS_FILESYS][s].refcount = Cardinality(Holders(s)))
    /\ [][\A t \in Threads :
            LET FS == OS_OBJECT_TYPE_OS_FILESYS
            IN  /\ (Ready(t) /\ th'[t].op = "OS_chkfs" /\ th'[t].pc = "Ref")
                     => /\ table'[FS][th'[t].slot].refcount
                             = table[FS][th'[t].slot].refcount + 1
                        /\ lock'[FS] = 0
                /\ (At(t, "OS_chkfs", "Ref") /\ result'.task = t)
                     => /\ table[FS][th[t].slot].refcount > 0
                        /\ table'[FS][th[t].slot].refcount
                             = table[FS][th[t].slot].refcount - 1
                        /\ result'.ret \in AdapterCodes
                        /\ lock'[FS] = 0
                /\ \A s \in Slots :
                     table'[FS][s].refcount < table[FS][s].refcount
                        => table[FS][s].refcount > 0]_vars

\* OS_chkfs has returned the adapter's error and no reference is left
C9_Witness ==
    /\ result.op = "OS_chkfs"
    /\ result.ret = "OS_ERROR"
    /\ \E s \in Slots :
         /\ IsActive(OS_OBJECT_TYPE_OS_FILESYS, table[OS_OBJECT_TYPE_OS_FILESYS][s])
         /\ table[OS_OBJECT_TYPE_OS_FILESYS][s].refcount = 0

\* the timers in the ring of the time base that were armed as one-shot timers
OneShots ==
    { s \in Slots :
        /\ internal[OS_OBJECT_TYPE_OS_TIMEBASE][TimerBaseSlot].first_cb
             # OS_OBJECT_ID_UNDEFINED
        /\ IsActive(OS_OBJECT_TYPE_OS_TIMECB, table[OS_OBJECT_TYPE_OS_TIMECB][s])
        /\ armed[s].wait_time > 0
        /\ armed[s].interval_time = 0
        /\ internal[OS_OBJECT_TYPE_OS_TIMECB][s].callback_ptr # "NULL" }

\* C10: the callback of a timer armed with wait_time > 0 and interval_time = 0
\* is invoked once, at the first tick at which the accumulated tick time has
\* reached wait_time, and at no later tick.
C10_OneShot ==
    \A s \in OneShots :
        LET elapsed == U32Value(internal[OS_OBJECT_TYPE_OS_TIMEBASE][TimerBaseSlot].freerun_time)
        IN  /\ Len(calls[s]) <= 1
            /\ Len(calls[s]) = 1 <=> elapsed >= armed[s].wait_time
            /\ Len(calls[s]) = 1
                 => /\ calls[s][1] * TickUsec >= armed[s].wait_time
                    /\ (calls[s][1] - 1) * TickUsec < armed[s].wait_time

\* a timer armed with 2500 has fired at tick 3 and two more ticks have passed
C10_Witness ==
    \E s \in OneShots :
        /\ armed[s].wait_time = 2500
        /\ calls[s] = << 3 >>
        /\ ticks = 5

\* the timers in the ring of the time base that were armed as periodic timers
Periodic ==
    { s \in Slots :
        /\ internal[OS_OBJECT_TYPE_OS_TIMEBASE][TimerBaseSlot].first_cb
             # OS_OBJECT_ID_UNDEFINED
        /\ IsActive(OS_OBJECT_TYPE_OS_TIMECB, table[OS_OBJECT_TYPE_OS_TIMECB][s])
        /\ armed[s].wait_time > 0
        /\ armed[s].interval_time > 0
        /\ internal[OS_OBJECT_TYPE_OS_TIMECB][s].callback_ptr # "NULL" }

\* the number of callbacks a log shows for the tick k
CallsAt(log, k) == Cardinality({ i \in 1 .. Len(log) : log[i] = k })

\* the full intervals of a timer that have ended once "elapsed" has passed:
\* the first ends at wait_time, each further one interval_time later
FullIntervals(elapsed, wait_time, interval_time) ==
    IF elapsed < wait_time THEN 0 ELSE (elapsed - wait_time) \div interval_time + 1

\* C11 as stated: the callback of a timer armed with wait_time > 0 and
\* interval_time > 0 is invoked never more than once during the processing of a
\* single tick, whatever tick_time is.
C11_OncePerTick ==
    \A s \in Periodic : \A k \in 1 .. ticks : CallsAt(calls[s], k) <= 1

\* C11 amended: when tick_time is not larger than interval_time, the callback
\* of a timer armed with wait_time > 0 and interval_time > 0 has been invoked
\* once for every full interval that has ended, and never more than once during
\* the processing of a single tick.
C11_OncePerFullInterval ==
    \A s \in Periodic :
        TickUsec <= armed[s].interval_time
            => /\ \A k \in 1 .. ticks : CallsAt(calls[s], k) <= 1
               /\ Len(calls[s]) = FullIntervals(ticks * TickUsec, armed[s].wait_time,
                                                armed[s].interval_time)

\* a timer armed with 2500 and an interval of 1500 has fired at the ticks 3 and 4
C11_Witness ==
    \E s \in Periodic :
        /\ armed[s].wait_time = 2500
        /\ armed[s].interval_time = 1500
        /\ calls[s] = << 3, 4 >>
        /\ ticks = 5

\* the free-running count of the time base
FreeRun == internal[OS_OBJECT_TYPE_OS_TIMEBASE][TimerBaseSlot].freerun_time

\* a <= b for two uint32 values
U32LessEq(a, b) == a[1] < b[1] \/ (a[1] = b[1] /\ a[2] <= b[2])

\* the sum of all tick times returned since the creation of the time base
TickSum == U32Mul(ticks_before + ticks, TickUsec)

\* C12 as stated: freerun_time never decreases from one tick to the next.
C12_FreeRunNeverDecreases ==
    [][U32LessEq(FreeRun, FreeRun')]_vars

\* C12 amended: freerun_time is at every point the sum of all tick_time values
\* returned since the creation of the time base, modulo 2^32; it decreases from
\* one tick to the next only where that sum passes a multiple of 2^32; and
\* OS_TimeBaseGetFreeRun gives the value of freerun_time at the time it reads.
C12_FreeRunIsTickSum ==
    /\ [](FreeRun = TickSum.rest)
    /\ [][/\ TickSum'.wraps = TickSum.wraps => U32LessEq(FreeRun, FreeRun')
          /\ (result'.op = "OS_TimeBaseGetFreeRun" /\ result'.ret = "OS_SUCCESS")
               => result'.out = FreeRun]_vars

\* the sum has passed 2^32 and a task has read the count after that
C12_Witness ==
    /\ TickSum.wraps = 1
    /\ result.op = "OS_TimeBaseGetFreeRun"
    /\ result.ret = "OS_SUCCESS"
    /\ result.out = << 0, 704 >>

\* C13: for a legal type and a serial number of the low field, the type and the
\* serial number of the composed handle are the ones composed, the slot of the
\* handle is the serial number modulo the capacity of the type's table, no
\* other pair of a type and a serial number composes to the same handle, and
\* the handle is not the undefined id.
C13_RoundTrip ==
    codec # NoCodec
        => /\ codec.type = codec.idtype
           /\ codec.serial = codec.idserial
           /\ codec.idtype \in Types
                => codec.index = [ rc |-> "OS_SUCCESS",
                                   idx |-> codec.idserial
                                             % OS_GetMaxForObjectType(codec.idtype) ]
           /\ \A t \in LegalTypes, n \in SerialArgs :
                << t, n >> # << codec.idtype, codec.idserial >>
                    => ~OS_ObjectIdEqual(OS_ObjectIdCompose_Impl(t, n), codec.id)
           /\ OS_ObjectIdDefined(codec.id)

\* the handle of the file system with the highest serial number
C13_Witness ==
    /\ codec.idtype = OS_OBJECT_TYPE_OS_FILESYS
    /\ codec.idserial = OS_OBJECT_INDEX_MASK
    /\ codec.id = << 11, 65535 >>
    /\ codec.index.rc = "OS_SUCCESS"

(***************************************************************************)
(* Handles of live objects.                                                *)
(***************************************************************************)
\* the binary semaphores that were created and are not deleted
LiveSem(h) ==
    \E s \in Slots : /\ IsActive(OS_OBJECT_TYPE_OS_BINSEM, table[OS_OBJECT_TYPE_OS_BINSEM][s])
                     /\ table[OS_OBJECT_TYPE_OS_BINSEM][s].active_id = h

\* C14: a handle h that a successful Create has returned and that no Delete has
\* removed resolves, with lock mode NONE, to the slot OS_ObjectIdAllocateNew
\* handed out for it, whatever creates and deletes of other objects came in
\* between: the handle is written to that slot when Create returns, it stays
\* there until its own Delete returns OS_SUCCESS, the lookup of the handle of an
\* active slot gives that slot, and OS_BinSemGive goes on to the adapter with it.
C14_LiveHandleResolves ==
    /\ [](\A s \in Slots :
            LET rec == table[OS_OBJECT_TYPE_OS_BINSEM][s]
                r == OS_ObjectIdGetById("NONE", OS_OBJECT_TYPE_OS_BINSEM, rec.active_id, 0)
            IN  IsActive(OS_OBJECT_TYPE_OS_BINSEM, rec) => r.rc = "OS_SUCCESS" /\ r.idx = s)
    /\ [][/\ \A t \in Threads :
               /\ (At(t, "OS_BinSemCreate", "Create_Impl") /\ result'.task = t
                     /\ result'.ret = "OS_SUCCESS")
                    => /\ OS_ObjectIdDefined(result'.out)
                       /\ table'[OS_OBJECT_TYPE_OS_BINSEM][th[t].slot].active_id = result'.out
               /\ (Ready(t) /\ result'.task = t /\ result'.op = "OS_BinSemGive")
                    => ~LiveSem(result'.id)
               /\ (Ready(t) /\ th'[t].op = "OS_BinSemGive" /\ LiveSem(th'[t].id))
                    => /\ th'[t].pc = "Impl"
                       /\ table[OS_OBJECT_TYPE_OS_BINSEM][th'[t].slot].active_id = th'[t].id
          /\ \A s \in Slots :
               LET rec == table[OS_OBJECT_TYPE_OS_BINSEM][s]
               IN  (IsActive(OS_OBJECT_TYPE_OS_BINSEM, rec)
                      /\ table'[OS_OBJECT_TYPE_OS_BINSEM][s].active_id # rec.active_id)
                     => /\ result'.op = "OS_BinSemDelete"
                        /\ result'.ret = "OS_SUCCESS"
                        /\ result'.id = rec.active_id]_vars

\* a semaphore is being given through its handle after an older one was deleted
\* and a younger one created
C14_Witness ==
    \E t \in Threads :
        /\ At(t, "OS_BinSemGive", "Impl")
        /\ LiveSem(th[t].id)
        /\ deleted # {}
        /\ \E s \in Slots :
             /\ IsActive(OS_OBJECT_TYPE_OS_BINSEM, table[OS_OBJECT_TYPE_OS_BINSEM][s])
             /\ OS_ObjectIdToSerialNumber_Impl(table[OS_OBJECT_TYPE_OS_BINSEM][s].active_id)
                  > OS_ObjectIdToSerialNumber_Impl(th[t].id)

(***************************************************************************)
(* Initialization.                                                         *)
(***************************************************************************)
\* C17: every call of OS_API_Init after the first returns OS_ERROR at once and
\* runs no initialization step: the tables, the serial counters and the count
\* of init steps are as they were; the Initialized flag is set when the first
\* call begins, whatever becomes of its steps, and is never cleared.
C17_InitOnce ==
    /\ [](common.init_calls >= 1 => common.Initialized)
    /\ [][/\ common.Initialized => common'.Initialized
          /\ (common.init_calls >= 1 /\ common'.init_calls # common.init_calls)
               => /\ result' = MainDone("OS_API_Init", "OS_ERROR")
                  /\ common'.pc = "idle"
                  /\ common'.init_steps = common.init_steps
                  /\ UNCHANGED << table, internal, last_id_issued >>
          /\ (common.pc = "idle" /\ common.init_calls >= 1)
               => common'.init_steps = common.init_steps]_vars

\* a second call has returned OS_ERROR after a first call that failed in one of
\* its steps, a binary semaphore created in between being still there
C17_Witness ==
    /\ result = MainDone("OS_API_Init", "OS_ERROR")
    /\ common.init_calls = 2
    /\ common.return_code = "OS_ERROR"
    /\ common.init_steps > 1
    /\ \E s \in Slots :
         IsActive(OS_OBJECT_TYPE_OS_BINSEM, table[OS_OBJECT_TYPE_OS_BINSEM][s])

(***************************************************************************)
(* Shutdown.                                                               *)
(***************************************************************************)
\* the main task is inside OS_IdleLoop
InIdleLoop == common.pc = "OS_IdleLoop_Impl"

\* C18 as stated: after OS_ApplicationShutdown(flag) has returned, whatever the
\* flag, the shutdown flag holds the magic value.
C18_AnyFlagShutsDown ==
    [][result'.op = "OS_ApplicationShutdown"
         => common'.ShutdownFlag = OS_SHUTDOWN_MAGIC_NUMBER]_vars

\* C18 amended: OS_ApplicationShutdown(flag) calls the wake hook whatever the
\* flag, and sets the shutdown flag to the magic value when the flag is true (1);
\* with any other flag value it leaves the shutdown flag as it was.  Once the
\* shutdown flag holds the magic value, a task inside OS_IdleLoop whose idle
\* primitive returns leaves the loop; OS_IdleLoop never returns while the
\* shutdown flag differs from the magic value.
C18_TrueFlagShutsDown ==
    /\ [][result'.op = "OS_ApplicationShutdown"
            => /\ common'.wakes = common.wakes + 1
               /\ common'.ShutdownFlag = IF common'.flag = 1 THEN OS_SHUTDOWN_MAGIC_NUMBER
                                         ELSE common.ShutdownFlag]_vars
    /\ [][result'.op = "OS_IdleLoop"
            => common.ShutdownFlag = OS_SHUTDOWN_MAGIC_NUMBER]_vars
    /\ (InIdleLoop /\ common.ShutdownFlag = OS_SHUTDOWN_MAGIC_NUMBER) ~> ~InIdleLoop

\* the idle loop has been left after a call with a true flag, a later call with
\* the flag 2 having changed nothing
C18_Witness ==
    /\ result.op = "OS_IdleLoop"
    /\ common.ShutdownFlag = OS_SHUTDOWN_MAGIC_NUMBER
    /\ common.flag = 2
    /\ common.wakes = 2

(***************************************************************************)
(* OS_DeleteAllObjects.                                                    *)
(***************************************************************************)
\* the main task is at the end of a pass and goes on
PassOver ==
    common.pc = "OS_ForEachObject" /\ common.cursor > LastVisit /\ common' # common

\* C15 as stated: OS_DeleteAllObjects makes at most five passes, delays 5 ms
\* between two passes, and a pass that has deleted nothing is the last one.
C15_StopsWhenNothingDeleted ==
    [][/\ common'.TryCount <= 5
       /\ \A i \in 1 .. Len(common'.delays) : common'.delays[i] = 5
       /\ (PassOver /\ common.pass_deleted = 0) => common'.pc = "idle"]_vars

\* C15 amended: OS_DeleteAllObjects makes at most five for-each passes, with a
\* delay of 5 ms between consecutive passes, and stops early as soon as a pass
\* visits no object: a pass that has seen an object, deleted or not, is followed
\* by the delay and another pass until five passes are made; the call returns.
C15_StopsWhenNothingVisited ==
    /\ [](/\ common.TryCount <= 5
          /\ common.pc # "spin"
          /\ \A i \in 1 .. Len(common.delays) : common.delays[i] = 5
          /\ common.pc = "OS_ForEachObject" => Len(common.delays) = common.TryCount - 1)
    /\ [][PassOver =>
            IF common.ObjectCount = 0 \/ common.TryCount = 5
            THEN /\ common'.pc = "idle"
                 /\ result' = MainDone("OS_DeleteAllObjects", "void")
                 /\ common'.delays = common.delays
            ELSE /\ common'.pc = "OS_ForEachObject"
                 /\ common'.TryCount = common.TryCount + 1
                 /\ common'.delays = Append(common.delays, 5)]_vars

\* the call has returned after its third pass, which saw no object: the first
\* pass deleted nothing of what it saw, the second pass deleted an object
C15_Witness ==
    /\ result = MainDone("OS_DeleteAllObjects", "void")
    /\ common.TryCount = 3
    /\ common.ObjectCount = 0
    /\ common.delays = << 5, 5 >>
    /\ Cardinality(deleted) = 1

\* C16: in every pass the delete wrapper of its type is called for every live
\* object the pass visits, a file system and a console included: a visit that
\* counts an object calls a delete for it.
C16_DeleteForEveryObject ==
    [][common'.ObjectCount = common.ObjectCount + 1 => common'.called # "none"]_vars

(***************************************************************************)
(* Messages.                                                               *)
(***************************************************************************)
\* task t is past the lookup of OS_QueueGet and takes its next step
GetChecks(t) == At(t, "OS_QueueGet", "Size") /\ th'[t] # th[t]

\* C19: OS_QueueGet with a buffer smaller than max_size of the queue returns
\* OS_QUEUE_INVALID_SIZE and writes 0 to size_copied; the adapter is not called
\* and the messages of the queue stay as they are.  With a buffer of max_size
\* or more, the oldest message is taken from the queue and given in full: its
\* size is written to size_copied, its bytes to the buffer.
C19_SmallBuffer ==
    /\ [](\A s \in Slots :
            LET q == internal[OS_OBJECT_TYPE_OS_QUEUE][s]
            IN  \A i \in 1 .. Len(q.msgs) : q.msgs[i].size <= q.max_size)
    /\ [][\A t \in Threads :
            GetChecks(t) =>
              LET q == internal[OS_OBJECT_TYPE_OS_QUEUE][th[t].slot]
              IN  IF th[t].arg[1] < q.max_size
                  THEN /\ result' = Done(t, "OS_QueueGet", th[t].id, "OS_QUEUE_INVALID_SIZE",
                                         U32(0), EmptyStr)
                       /\ UNCHANGED << internal, table >>
                  ELSE q.msgs # << >> =>
                         /\ result' = Done(t, "OS_QueueGet", th[t].id, "OS_SUCCESS",
                                           U32(Head(q.msgs).size), << Head(q.msgs).data >>)
                         /\ internal'[OS_OBJECT_TYPE_OS_QUEUE][th[t].slot].msgs
                              = Tail(q.msgs)]_vars

\* a buffer too small was refused while the queue holds two messages, the older
\* one of the full size
C19_Witness ==
    /\ result.op = "OS_QueueGet"
    /\ result.ret = "OS_QUEUE_INVALID_SIZE"
    /\ result.out = U32(0)
    /\ LET q == internal[OS_OBJECT_TYPE_OS_QUEUE][SlotOf(result.id)]
       IN  /\ Len(q.msgs) = 2
           /\ Head(q.msgs).size = q.max_size

(***************************************************************************)
(* Arguments of Create.                                                    *)
(***************************************************************************)
CreateOps == { "OS_BinSemCreate", "OS_QueueCreate" }
ArgCodes == { "OS_INVALID_POINTER", "OS_ERR_NAME_TOO_LONG", "OS_QUEUE_INVALID_SIZE" }

\* C20: a Create that returns OS_INVALID_POINTER, OS_ERR_NAME_TOO_LONG or
\* OS_QUEUE_INVALID_SIZE has taken no type-lock, reserved no slot, called no
\* adapter and written no table nor its output; and a Create comes to the id
\* manager only with a handle pointer and a name that are not null, a name
\* shorter than OS_MAX_API_NAME and, for a queue, a depth of at most
\* OS_QUEUE_MAX_DEPTH: with any other arguments it returns one of these codes.
C20_RejectBeforeIdManager ==
    [][\A t \in Threads :
         /\ (Ready(t) /\ result'.task = t /\ result'.op \in CreateOps
               /\ result'.ret \in ArgCodes)
              => /\ UNCHANGED << table, internal, last_id_issued, lock >>
                 /\ th'[t] = IdleTh
                 /\ result'.out = NoId
                 /\ result'.ret = "OS_QUEUE_INVALID_SIZE" => result'.op = "OS_QueueCreate"
         /\ (Ready(t) /\ th'[t].op \in CreateOps)
              => LET rec == internal'[OpType(th'[t].op)][th'[t].slot]
                 IN  /\ th'[t].pc = "Create_Impl"
                     /\ th'[t].arg # << "NULL" >>
                     /\ rec.name # NullPtr
                     /\ StrLen(rec.name) < OS_MAX_API_NAME
                     /\ th'[t].op = "OS_QueueCreate" => rec.max_depth <= OS_QUEUE_MAX_DEPTH
         /\ (Ready(t) /\ result'.task = t /\ result'.op \in CreateOps
               /\ result'.ret \notin ArgCodes)
              => /\ result'.ret \in { "OS_ERR_NAME_TAKEN", "OS_ERR_NO_FREE_IDS" }
                 /\ result'.str # NullPtr
                 /\ StrLen(result'.str) < OS_MAX_API_NAME]_vars

\* a queue of too large a depth was refused while another task, in the middle
\* of a create, holds the type-lock of the queues
C20_Witness ==
    /\ result.op = "OS_QueueCreate"
    /\ result.ret = "OS_QUEUE_INVALID_SIZE"
    /\ lock[OS_OBJECT_TYPE_OS_QUEUE] \in Threads \ { result.task }

\* the calls that read the properties of an object, and the type of each
InfoOps == { "OS_BinSemGetInfo", "OS_QueueGetInfo" }

\* C21: a GetInfo with a null output pointer returns OS_INVALID_POINTER in its
\* first step, with no lookup: no table and no type-lock is touched.  A GetInfo
\* on a handle that is live returns OS_SUCCESS, and a GetInfo that returns
\* OS_SUCCESS gives the name and the creator that the common record of the
\* handle's own slot holds, copied in a step in which the caller holds the
\* type-lock and the slot is active with that handle.
C21_GetInfo ==
    [][ result'.op \in InfoOps =>
          LET t == result'.task
              ty == OpType(result'.op)
              h == result'.id
          IN  /\ result'.ret \in { "OS_SUCCESS", "OS_INVALID_POINTER", "OS_ERR_INVALID_ID" }
              /\ result'.ret = "OS_INVALID_POINTER" =>
                    /\ Ready(t)
                    /\ h = NoId /\ result'.out = NoId /\ result'.str = EmptyStr
                    /\ UNCHANGED << table, internal, last_id_issued, lock, deleted >>
              /\ result'.ret = "OS_ERR_INVALID_ID" =>
                    /\ \A s \in Slots : table[ty][s].active_id # h \/ ~IsActive(ty, table[ty][s])
                    /\ result'.out = NoId
              /\ result'.ret = "OS_SUCCESS" =>
                    /\ lock[ty] = t /\ lock'[ty] = 0
                    /\ OS_ObjectIdToType_Impl(h) = ty
                    /\ table[ty][SlotOf(h)].active_id = h
                    /\ table'[ty][SlotOf(h)].active_id = h
                    /\ result'.str = internal[ty][SlotOf(h)].name
                    /\ result'.out = table[ty][SlotOf(h)].creator
                    /\ UNCHANGED << table, internal >>
      ]_vars

\* a task has read the properties of a binary semaphore that another task
\* created
C21_Witness ==
    /\ result.op = "OS_BinSemGetInfo"
    /\ result.ret = "OS_SUCCESS"
    /\ result.str = << "a" >>
    /\ result.out # OS_TaskGetId_Impl(result.task)
    /\ result.out \in { OS_TaskGetId_Impl(t) : t \in Threads }

\* the calls of the adapter that a call of the file systems has made
ImplOf(r) == IF "impl" \in DOMAIN r THEN r.impl ELSE << >>

\* the calls of the adapter as a set
ImplCalls(r) == { ImplOf(r)[k] : k \in 1 .. Len(ImplOf(r)) }

\* C22: OS_mount calls the mount of the adapter only for a file system whose
\* flags, IS_FIXED left aside, are exactly IS_READY; when it returns OS_SUCCESS
\* the adapter has been called, the flags have gained IS_MOUNTED_SYSTEM and
\* IS_MOUNTED_VIRTUAL and the virtual mount point is the one given; when it
\* returns anything else, no flags and no virtual mount point have changed.  A
\* file system that is mounted is rejected without a call of the adapter.
C22_Mount ==
    [][ result'.op = "OS_mount" =>
          LET t == result'.task
              before == internal[OS_OBJECT_TYPE_OS_FILESYS][th[t].slot]
              after == internal'[OS_OBJECT_TYPE_OS_FILESYS][th[t].slot]
          IN  /\ "OS_FileSysMountVolume_Impl" \in ImplCalls(result') =>
                    /\ At(t, "OS_mount", "Locked")
                    /\ before.flags \ { "IS_FIXED" } = { "IS_READY" }
              /\ result'.ret = "OS_SUCCESS" =>
                    /\ ImplOf(result') = << "OS_FileSysMountVolume_Impl" >>
                    /\ after.flags = before.flags \cup Mounted
                    /\ after.virtual_mountpt = result'.str[2]
                    /\ before.name = result'.str[1]
              /\ result'.ret # "OS_SUCCESS" => UNCHANGED internal
              /\ At(t, "OS_mount", "Locked") /\ before.flags \cap Mounted # {} =>
                    /\ result'.ret # "OS_SUCCESS"
                    /\ ImplOf(result') = << >>
      ]_vars

\* a file system made by OS_mkfs has been mounted
C22_Witness ==
    /\ result.op = "OS_mount"
    /\ result.ret = "OS_SUCCESS"
    /\ \E s \in Slots :
         /\ table[OS_OBJECT_TYPE_OS_FILESYS][s].active_id = result.id
         /\ internal[OS_OBJECT_TYPE_OS_FILESYS][s].flags = { "IS_READY" } \cup Mounted
         /\ internal[OS_OBJECT_TYPE_OS_FILESYS][s].virtual_mountpt = << "/", "m" >>

\* C23: OS_unmount calls the unmount of the adapter only for the entry whose
\* virtual mount point is a prefix of the path given and whose flags, IS_FIXED
\* left aside, are exactly IS_READY, IS_MOUNTED_SYSTEM and IS_MOUNTED_VIRTUAL;
\* when it returns OS_SUCCESS both mounted flags are cleared and the flags are
\* those OS_mount accepts; when it returns anything else nothing has changed.
C23_Unmount ==
    [][ result'.op = "OS_unmount" =>
          LET t == result'.task
              before == internal[OS_OBJECT_TYPE_OS_FILESYS][th[t].slot]
              after == internal'[OS_OBJECT_TYPE_OS_FILESYS][th[t].slot]
          IN  /\ "OS_FileSysUnmountVolume_Impl" \in ImplCalls(result') =>
                    /\ At(t, "OS_unmount", "Locked")
                    /\ OS_FileSys_FindVirtMountPoint(result'.str, OS_OBJECT_TYPE_OS_FILESYS,
                                                     th[t].slot)
                    /\ before.flags \ { "IS_FIXED" } = { "IS_READY" } \cup Mounted
              /\ result'.ret = "OS_SUCCESS" =>
                    /\ ImplOf(result') = << "OS_FileSysUnmountVolume_Impl" >>
                    /\ after.flags = before.flags \ Mounted
                    /\ after.flags \ { "IS_FIXED" } = { "IS_READY" }
                    /\ [after EXCEPT !.flags = before.flags] = before
              /\ result'.ret # "OS_SUCCESS" => UNCHANGED internal
      ]_vars

\* a file system has been unmounted
C23_Witness ==
    /\ result.op = "OS_unmount"
    /\ result.ret = "OS_SUCCESS"
    /\ \E s \in Slots :
         /\ table[OS_OBJECT_TYPE_OS_FILESYS][s].active_id = result.id
         /\ internal[OS_OBJECT_TYPE_OS_FILESYS][s].flags \ { "IS_FIXED" } = { "IS_READY" }

\* the number of calls of "call" in the log of a call of the file systems
CountCalls(r, call) == Cardinality({ k \in 1 .. Len(ImplOf(r)) : ImplOf(r)[k] = call })

\* every active entry of the file systems is ready, and mounted on both sides
\* or on none
ActiveFlagsOk ==
    \A s \in Slots :
        IsActive(OS_OBJECT_TYPE_OS_FILESYS, table[OS_OBJECT_TYPE_OS_FILESYS][s]) =>
            LET flags == internal[OS_OBJECT_TYPE_OS_FILESYS][s].flags
            IN  /\ "IS_READY" \in flags
                /\ "IS_MOUNTED_SYSTEM" \in flags <=> "IS_MOUNTED_VIRTUAL" \in flags

\* C24: the entry that OS_mkfs or OS_initfs has reserved becomes active exactly
\* when the call returns OS_SUCCESS, and then IS_READY is set, the volume has
\* been started and (for OS_mkfs) formatted, and it has not been stopped.  When
\* the format fails the volume is stopped exactly once, the entry is given back
\* and the error of the format is returned.  In every state each active entry
\* has IS_READY, and IS_MOUNTED_SYSTEM exactly when IS_MOUNTED_VIRTUAL.
C24_ReadyOnFullSuccess ==
    /\ []ActiveFlagsOk
    /\ [][ result'.op \in { "OS_mkfs", "OS_initfs" } /\ ~Ready(result'.task) =>
             LET t == result'.task
                 i == th[t].slot
                 impl == ImplOf(result')
                 full == << "OS_FileSysStartVolume_Impl" >>
                           \o (IF result'.op = "OS_mkfs"
                               THEN << "OS_FileSysFormatVolume_Impl" >> ELSE << >>)
             IN  /\ table[OS_OBJECT_TYPE_OS_FILESYS][i].active_id = OS_OBJECT_ID_RESERVED
                 /\ result'.ret = "OS_SUCCESS" <=>
                       IsActive(OS_OBJECT_TYPE_OS_FILESYS,
                                table'[OS_OBJECT_TYPE_OS_FILESYS][i])
                 /\ result'.ret = "OS_SUCCESS" =>
                       /\ impl = full
                       /\ internal'[OS_OBJECT_TYPE_OS_FILESYS][i].flags = { "IS_READY" }
                 /\ result'.ret # "OS_SUCCESS" =>
                       /\ table'[OS_OBJECT_TYPE_OS_FILESYS][i].active_id
                             = OS_OBJECT_ID_UNDEFINED
                       /\ "IS_READY" \notin internal'[OS_OBJECT_TYPE_OS_FILESYS][i].flags
                       /\ impl = full =>
                             /\ result'.op = "OS_initfs"
                       /\ "OS_FileSysFormatVolume_Impl" \in ImplCalls(result') =>
                             /\ impl = full \o << "OS_FileSysStopVolume_Impl" >>
                             /\ result'.ret \in AdapterCodes
                 /\ CountCalls(result', "OS_FileSysStopVolume_Impl") =
                       (IF result'.op = "OS_mkfs" /\ result'.ret # "OS_SUCCESS"
                           /\ "OS_FileSysFormatVolume_Impl" \in ImplCalls(result')
                        THEN 1 ELSE 0)
         ]_vars

\* the format of OS_mkfs has failed and the volume has been stopped, while
\* another file system is mounted
C24_Witness ==
    /\ result.op = "OS_mkfs"
    /\ ImplOf(result) = << "OS_FileSysStartVolume_Impl", "OS_FileSysFormatVolume_Impl",
                           "OS_FileSysStopVolume_Impl" >>
    /\ result.ret = "OS_ERROR"
    /\ \E s \in Slots :
         /\ IsActive(OS_OBJECT_TYPE_OS_FILESYS, table[OS_OBJECT_TYPE_OS_FILESYS][s])
         /\ Mounted \subseteq internal[OS_OBJECT_TYPE_OS_FILESYS][s].flags

\* the device name is that of an active entry of the file systems
Registered(devname) ==
    \E s \in Slots :
        /\ IsActive(OS_OBJECT_TYPE_OS_FILESYS, table[OS_OBJECT_TYPE_OS_FILESYS][s])
        /\ OS_ObjectNameMatch(devname, OS_OBJECT_TYPE_OS_FILESYS, s)

\* no entry of the table of the file systems is free
TableFull ==
    \A s \in Slots : table[OS_OBJECT_TYPE_OS_FILESYS][s].active_id # OS_OBJECT_ID_UNDEFINED

\* C25: OS_mkfs and OS_initfs, called with names that pass their checks, return
\* OS_FS_ERR_DEVICE_NOT_FREE when the device name is that of an entry that is
\* still registered and when the table has no free entry, and leave every
\* entry as it was.
C25_DeviceNotFree ==
    [][ /\ result'.op \in { "OS_mkfs", "OS_initfs" }
        /\ Ready(result'.task)
        /\ result'.str # EmptyStr
        /\ Registered(result'.str) \/ TableFull
        => /\ result'.ret = "OS_FS_ERR_DEVICE_NOT_FREE"
           /\ UNCHANGED << table, internal >>
      ]_vars

\* mp is a whole-path prefix of path: path goes on with "/" after it, or ends
PathPrefix(mp, path) ==
    /\ Len(mp) > 0
    /\ Len(mp) <= Len(path)
    /\ \A k \in 1 .. Len(mp) : path[k] = mp[k]
    /\ Len(path) > Len(mp) => path[Len(mp) + 1] = "/"

\* the active file systems that are mounted at a whole-path prefix of path
MountsOf(path) ==
    { s \in Slots :
        /\ IsActive(OS_OBJECT_TYPE_OS_FILESYS, table[OS_OBJECT_TYPE_OS_FILESYS][s])
        /\ Mounted \subseteq internal[OS_OBJECT_TYPE_OS_FILESYS][s].flags
        /\ PathPrefix(internal[OS_OBJECT_TYPE_OS_FILESYS][s].virtual_mountpt, path) }

\* what the translation of path is when MountsOf(path) is not empty: the system
\* mount point of the first of them and the rest of path after its virtual one
Translation(path) ==
    LET s == CHOOSE x \in MountsOf(path) : \A y \in MountsOf(path) : x <= y
        local == internal[OS_OBJECT_TYPE_OS_FILESYS][s]
    IN  local.system_mountpt \o SubSeq(path, Len(local.virtual_mountpt) + 1, Len(path))

\* OS_TranslatePath has returned for a call with two pointers and a virtual
\* path that is below OS_MAX_PATH_LEN, with its part after the last "/", if
\* there is a "/", below OS_MAX_FILE_NAME
TranslatedInBounds ==
    /\ result.op = "OS_TranslatePath"
    /\ result.ret # "OS_INVALID_POINTER"
    /\ Len(result.virt) < OS_MAX_PATH_LEN
    /\ \A k \in 1 .. Len(result.virt) :
         result.virt[k] = "/" /\ (\A j \in (k + 1) .. Len(result.virt) : result.virt[j] # "/")
            => Len(result.virt) - k < OS_MAX_FILE_NAME

\* C26, as stated: a virtual path that does not start with "/", and one that
\* has nothing after its last "/", gets OS_FS_ERR_PATH_INVALID.
C26_NoFileNameInvalid ==
    TranslatedInBounds /\ Len(result.virt) > 0 =>
        /\ result.virt[1] # "/" => result.ret = "OS_FS_ERR_PATH_INVALID"
        /\ result.virt[Len(result.virt)] = "/" => result.ret = "OS_FS_ERR_PATH_INVALID"

\* C26, amended: a virtual path within the bounds of length that does not start
\* with "/" gets OS_FS_ERR_PATH_INVALID; one that starts with "/" and has nothing
\* after its last "/" is translated like any other path: with a file system
\* mounted at the path before that "/" and room for the result, the call returns
\* OS_SUCCESS and the system mount point followed by "/".
C26_NoLeadingSlashInvalid ==
    TranslatedInBounds /\ Len(result.virt) > 0 =>
        /\ result.virt[1] # "/" =>
              /\ result.ret = "OS_FS_ERR_PATH_INVALID"
              /\ result.str = EmptyStr
        /\ result.virt[1] = "/" /\ result.virt[Len(result.virt)] = "/"
             /\ MountsOf(result.virt) # {}
             /\ Len(Translation(result.virt)) < OS_MAX_LOCAL_PATH_LEN =>
              /\ result.ret = "OS_SUCCESS"
              /\ result.str = Translation(result.virt)
              /\ result.str[Len(result.str)] = "/"

\* the path /m/ has been translated while a file system is mounted at /m
C26_Witness ==
    /\ result.op = "OS_TranslatePath"
    /\ result.virt = << "/", "m", "/" >>
    /\ MountsOf(result.virt) # {}
    /\ result.ret = "OS_SUCCESS"
    /\ result.str = << "/", "p", "/" >>

\* C27: for a virtual path that passes the checks of OS_TranslatePath, the
\* call returns OS_FS_ERR_PATH_INVALID when no file system is mounted at a
\* whole-path prefix of it (a mount at /m does not match /mx/f); otherwise it
\* takes the first such file system and returns OS_SUCCESS with its system mount
\* point followed by the rest of the path when that is shorter than
\* OS_MAX_LOCAL_PATH_LEN, and OS_FS_ERR_PATH_TOO_LONG when it is not.
C27_Translate ==
    TranslatedInBounds /\ Len(result.virt) > 0 /\ result.virt[1] = "/" =>
        IF MountsOf(result.virt) = {}
        THEN result.ret = "OS_FS_ERR_PATH_INVALID"
        ELSE IF Len(Translation(result.virt)) < OS_MAX_LOCAL_PATH_LEN
        THEN /\ result.ret = "OS_SUCCESS"
             /\ result.str = Translation(result.virt)
        ELSE result.ret = "OS_FS_ERR_PATH_TOO_LONG"

\* a path below the mount point /m has been translated to the system mount point
\* and the rest of the path
C27_Witness ==
    /\ result.op = "OS_TranslatePath"
    /\ result.virt = << "/", "m", "/", "f" >>
    /\ result.ret = "OS_SUCCESS"
    /\ result.str = << "/", "p", "/", "f" >>

(***************************************************************************)
(* The timer API in the context of a timer callback.                       *)
(***************************************************************************)
\* the tasks whose current handle has the type of a time base
TimebaseTasks ==
    { t \in Threads : OS_ObjectIdToType_Impl(registered[t]) = OS_OBJECT_TYPE_OS_TIMEBASE }

ContextOps == { "OS_TimeBaseCreate", "OS_TimeBaseSet", "OS_TimeBaseDelete",
                "OS_TimeBaseGetIdByName", "OS_TimeBaseGetInfo" }

\* the codes with which a call of the timer API rejects its arguments
ContextArgCodes(op) ==
    IF op = "OS_TimeBaseCreate" THEN { "OS_INVALID_POINTER", "OS_ERR_NAME_TOO_LONG" }
    ELSE IF op = "OS_TimeBaseSet" THEN { "OS_TIMER_ERR_INVALID_ARGS" }
    ELSE IF op = "OS_TimeBaseDelete" THEN {}
    ELSE { "OS_INVALID_POINTER" }

\* C28: OS_TimeBaseCreate, OS_TimeBaseSet, OS_TimeBaseDelete,
\* OS_TimeBaseGetIdByName and OS_TimeBaseGetInfo, called by a task whose current
\* handle has the type of a time base, return in one step: with
\* OS_ERR_INCORRECT_OBJ_STATE unless the call rejects its arguments, without
\* taking the type-lock, without reserving or freeing a slot and without coming
\* to the adapter.
C28_TimebaseContext ==
    /\ [](\A t \in TimebaseTasks :
             /\ th[t].pc = "idle"
             /\ \A ty \in Types : lock[ty] # t)
    /\ [][\A t \in TimebaseTasks :
            result'.task = t =>
               /\ result'.op \in ContextOps
               /\ result'.ret \in { "OS_ERR_INCORRECT_OBJ_STATE" }
                                     \cup ContextArgCodes(result'.op)
               /\ result'.out = NoId
               /\ UNCHANGED << table, internal, last_id_issued, lock, deleted >>]_vars

\* OS_TimeBaseDelete, called from a timer callback with the handle of the time
\* base, has returned OS_ERR_INCORRECT_OBJ_STATE and the time base is there
C28_Witness ==
    /\ result.task \in TimebaseTasks
    /\ result.op = "OS_TimeBaseDelete"
    /\ result.ret = "OS_ERR_INCORRECT_OBJ_STATE"
    /\ \E s \in Slots :
         /\ IsActive(OS_OBJECT_TYPE_OS_TIMEBASE, table[OS_OBJECT_TYPE_OS_TIMEBASE][s])
         /\ table[OS_OBJECT_TYPE_OS_TIMEBASE][s].active_id = registered[result.task]

(***************************************************************************)
(* Milliseconds to ticks.                                                  *)
(***************************************************************************)
WaitOps == { "OS_BinSemTimedWait_Impl", "OS_TaskDelay_Impl" }

\* (ms * ticks_per_sec + 999) / 1000, as a number
ExactTicks(r) ==
    LET sum == BigAdd(BigMul(r.msecs, Digits(common.TicksPerSecond)), Digits(999))
    IN  IF sum = << >> THEN sum ELSE Tail(sum)

\* C29, as stated: the ticks are (ms * ticks_per_sec + 999) / 1000, at least
\* one for ms > 0, and the int-max when that value is above the int-max.
C29_CappedAtIntMax ==
    result.op \in WaitOps =>
        /\ result.ticks = IF BigLessEq(ExactTicks(result), INT_MAX)
                          THEN BigInt(ExactTicks(result)) ELSE BigInt(INT_MAX)
        /\ result.msecs # << >> => result.ticks >= 1

\* C29, amended: when (ms * ticks_per_sec + 999) / 1000 is at most the int-max,
\* OS_Milli2Ticks returns OS_SUCCESS with that number of ticks, which is at
\* least one for ms > 0, and its caller waits for that number of ticks; when it
\* is above the int-max, OS_Milli2Ticks returns OS_ERROR with 0 ticks, and its
\* caller returns OS_ERROR without a call of the operating system.
C29_ErrorAboveIntMax ==
    result.op \in WaitOps =>
        IF BigLessEq(ExactTicks(result), INT_MAX)
        THEN /\ result.status = "OS_SUCCESS"
             /\ result.ticks = BigInt(ExactTicks(result))
             /\ result.msecs # << >> => result.ticks >= 1
             /\ Len(result.impl) = 1
             /\ result.impl[1][2] = result.ticks
        ELSE /\ result.status = "OS_ERROR"
             /\ result.ticks = 0
             /\ result.ret = "OS_ERROR"
             /\ result.impl = << >>

\* OS_TaskDelay_Impl has been called with 4294967295 ms at 1000 ticks in a
\* second, and has returned OS_ERROR
C29_Witness ==
    /\ result.op = "OS_TaskDelay_Impl"
    /\ result.msecs = Dec(<< 4, 294, 967, 295 >>)
    /\ common.TicksPerSecond = 1000
    /\ result.ret = "OS_ERROR"
    /\ result.ticks = 0

(***************************************************************************)
(* The adapter call of an operation that looks its handle up in NONE mode. *)
(***************************************************************************)
NoneOps == { "OS_BinSemTake", "OS_BinSemGive" }

\* task t is past its lookup in NONE mode, before the call of the adapter
AtImpl(t) == th[t].op \in NoneOps /\ th[t].pc = "Impl"

\* C30, as stated: the adapter call of an operation in NONE mode runs on a slot
\* that is active with the handle the caller passed, whatever Delete and Create
\* other tasks have made since the lookup.
C30_AdapterOnCallersObject ==
    [][\A t \in Threads :
         AtImpl(t) /\ result'.task = t =>
            table[OS_OBJECT_TYPE_OS_BINSEM][th[t].slot].active_id = th[t].id]_vars

\* C30, amended: the lookup in NONE mode finds the slot that is active with the
\* handle the caller passed, and returns with no type-lock held and no refcount
\* changed; the adapter call follows with nothing that holds the object, and a
\* failed lookup returns OS_ERR_INVALID_ID without a call of the adapter.
C30_ResolvedAtLookupOnly ==
    [][\A t \in Threads :
         LET BS == OS_OBJECT_TYPE_OS_BINSEM
         IN  /\ (Ready(t) /\ AtImpl(t)') =>
                   /\ IsActive(BS, table[BS][th'[t].slot])
                   /\ table[BS][th'[t].slot].active_id = th'[t].id
                   /\ table' = table
                   /\ lock' = lock
                   /\ \A ty \in Types : lock[ty] # t
             /\ (Ready(t) /\ result'.task = t /\ result'.op \in NoneOps) =>
                   /\ result'.ret = "OS_ERR_INVALID_ID"
                   /\ ~ \E s \in Slots :
                          /\ IsActive(BS, table[BS][s])
                          /\ table[BS][s].active_id = result'.id
                          /\ s = OS_ObjectIdToSerialNumber_Impl(result'.id)
                                   % OS_GetMaxForObjectType(BS)
             /\ (AtImpl(t) /\ result'.task = t) =>
                   /\ table' = table
                   /\ lock' = lock]_vars

\* a task is about to call the adapter of OS_BinSemTake for a slot that another
\* object has taken since its lookup
C30_Witness ==
    \E t \in Threads :
        /\ AtImpl(t)
        /\ IsActive(OS_OBJECT_TYPE_OS_BINSEM, table[OS_OBJECT_TYPE_OS_BINSEM][th[t].slot])
        /\ table[OS_OBJECT_TYPE_OS_BINSEM][th[t].slot].active_id # th[t].id
        /\ th[t].id \in deleted

(***************************************************************************)
(* The servicing task, callbacks that read the free-running count, and     *)
(* tasks that set the time base.                                           *)
(***************************************************************************)
CallbackInit == TimerStart(0, { 1000 }, { 1000 })

CallbackNext ==
    \/ OS_TimeBase_CallbackThread
    \/ CallbackGetFreeRun
    \/ \E t \in Threads : OS_TimeBaseSet(t)

CallbackSpec == CallbackInit /\ [][CallbackNext]_vars

\* task t is in OS_TimeBaseSet with the type-lock of the time bases, at the
\* OS_TimeBaseLock_Impl of a time base whose lock the servicing task holds
SetWaitsForTimeBase(t) ==
    /\ At(t, "OS_TimeBaseSet", "Locked")
    /\ lock[OS_OBJECT_TYPE_OS_TIMEBASE] = t
    /\ ~TimeBaseLockFree(th[t].slot)

\* the callback is at the lookup of OS_TimeBaseGetFreeRun, and another task has
\* the type-lock of the time bases
CallbackWaitsForTypeLock ==
    /\ svc.pc = "callback"
    /\ ~LockFree(OS_OBJECT_TYPE_OS_TIMEBASE)

RetireInit ==
    \/ TimerStart(0, { 1000 }, { 1000 })
    \/ LET TB == OS_OBJECT_TYPE_OS_TIMEBASE
       IN  /\ table = [ ty \in Types |-> [ s \in Slots |->
                          IF ty = TB /\ s = TimerBaseSlot
                          THEN [ZeroCommon EXCEPT !.name_entry = "name",
                                    !.active_id = OS_ObjectIdCompose_Impl(TB, 1),
                                    !.creator = TaskHandle(1)]
                          ELSE ZeroCommon ] ]
           /\ internal = [ ty \in Types |-> [ s \in Slots |->
                             IF ty = TB /\ s = TimerBaseSlot
                             THEN [ZeroInternal(TB) EXCEPT
                                      !.name = << "a" >>,
                                      !.accuracy_usec = OS_SharedGlobalVars_MicroSecPerTick]
                             ELSE ZeroInternal(ty) ] ]
           /\ last_id_issued = [ ty \in Types |-> IF ty = TB THEN 1 ELSE 0 ]
           /\ lock = [ ty \in Types |-> 0 ]
           /\ th = [ t \in Threads |-> IdleTh ]
           /\ result = NoResult
           /\ deleted = {}
           /\ unlock_errors = 0
           /\ svc = [NoSvc EXCEPT !.pc = "start",
                        !.timebase_id = OS_ObjectIdCompose_Impl(TB, 1)]
           /\ ticks = 0
           /\ armed = [ s \in Slots |-> [ wait_time |-> 0, interval_time |-> 0 ] ]
           /\ calls = [ s \in Slots |-> << >> ]
           /\ ticks_before = 0
           /\ common = CommonInit
           /\ codec = NoCodec
           /\ registered = [ t \in Threads |-> TaskHandle(t) ]

RetireNext ==
    \/ OS_TimeBase_CallbackThread
    \/ \E t \in Threads : OS_TimeBaseDelete(t)
    \/ \E t \in Threads : OS_TimeBaseCreate(t)

RetireSpec == RetireInit /\ [][RetireNext]_vars

\* the slot of the servicing task no longer holds the id the task started with
SlotLost ==
    table[OS_OBJECT_TYPE_OS_TIMEBASE][svc.local_id].active_id # svc.timebase_id

\* C32: once the time base of a servicing task has been deleted, the next round
\* of the task leaves the loop: it changes no free-running count and no timer,
\* and gives no callback, whether the slot is free or holds a new time base
C32_ExitsAfterDelete ==
    [][ (svc.pc = "loop" /\ svc' # svc /\ SlotLost)
        => /\ svc'.pc = "exit"
           /\ internal' = internal
           /\ calls' = calls ]_vars

\* the servicing task has left the loop in a round that found a new time base
\* in its slot
C32_Witness ==
    /\ svc.pc = "exit"
    /\ result.op = "OS_TimeBase_CallbackThread"
    /\ result.ret = "break"
    /\ SlotLost
    /\ table[OS_OBJECT_TYPE_OS_TIMEBASE][svc.local_id].active_id # OS_OBJECT_ID_UNDEFINED

\* a round of the loop of the servicing task has been taken
SvcRound ==
    /\ svc.pc = "loop"
    /\ vars' # vars
    /\ result'.op = "OS_TimeBase_CallbackThread"

\* C34 as stated: the round in which the sync function returns 0 for the
\* fourth time in a row, which brings the count to the limit, calls
\* OS_TaskDelay_Impl(10) and gives the warning
C34_YieldsAtLimit ==
    [][ (SvcRound /\ svc'.zeros = OS_TIMEBASE_SPIN_LIMIT)
        => (result'.delay = 10 /\ result'.warned) ]_vars

\* C34: the servicing task counts the times in a row the sync function returns
\* 0, up to the limit of 4, in rounds without a delay; the next such round, the
\* fifth in a row, calls OS_TaskDelay_Impl(10) and gives the warning; every
\* further one calls OS_TaskDelay_Impl(10) without a warning; a round with a
\* tick_time other than 0 has no delay and no warning and sets the count to 0
C34_YieldsPastLimit ==
    [][ SvcRound =>
        /\ (result'.tick_time # 0) = (svc'.zeros = 0)
        /\ svc'.zeros = 0 => svc'.spin_cycles = 0
        /\ svc'.zeros \in 1..OS_TIMEBASE_SPIN_LIMIT => svc'.spin_cycles = svc'.zeros
        /\ svc'.zeros <= OS_TIMEBASE_SPIN_LIMIT => (result'.delay = 0 /\ ~result'.warned)
        /\ svc'.zeros = OS_TIMEBASE_SPIN_LIMIT + 1 => (result'.delay = 10 /\ result'.warned)
        /\ svc'.zeros > OS_TIMEBASE_SPIN_LIMIT + 1 => (result'.delay = 10 /\ ~result'.warned)
      ]_vars

\* the sync function has returned 0 more than five times in a row: the last
\* round had a delay and no warning
C34_Witness ==
    /\ svc.pc = "loop"
    /\ svc.zeros > OS_TIMEBASE_SPIN_LIMIT + 1
    /\ result.op = "OS_TimeBase_CallbackThread"
    /\ result.delay = 10
    /\ ~result.warned

(***************************************************************************)
(* One timer at one tick, for wait times, interval times and tick times up *)
(* to the largest the types allow.                                         *)
(***************************************************************************)
TickArgs == { 0, 1, TickUsec, 999999999, 2147483647 }
WaitArgs == { 0, 1, 400, TickUsec, 2500, 999999999 }
IntervalArgs == { 0, 1, 400, TickUsec, 1500, 999999999 }

\* the timer record cb at a tick of tick_time: the record after the tick, the
\* number of callbacks, and the number of passes of the while loop
CatchUpDone(cb, tick_time) ==
    LET r == TimerTick(cb, tick_time)
        passes == TimerLoop([cb EXCEPT !.wait_time = @ - tick_time,
                                       !.callback_ptr = "cb"], 1, 0)
    IN  [ task |-> 0, op |-> "TimerTick", id |-> NoId, ret |-> "none", out |-> NoId,
          str |-> EmptyStr, before |-> cb, tick_time |-> tick_time,
          after |-> r.cb, n |-> r.n, passes |-> passes.n ]

CatchUp ==
    /\ \E wait_time \in WaitArgs, interval_time \in IntervalArgs,
          callback_ptr \in CallbackPtrs, tick_time \in TickArgs :
         result' = CatchUpDone([ZeroInternal(OS_OBJECT_TYPE_OS_TIMECB) EXCEPT
                                    !.wait_time = wait_time,
                                    !.interval_time = interval_time,
                                    !.callback_ptr = callback_ptr], tick_time)
    /\ UNCHANGED << table, internal, last_id_issued, lock, th, deleted, unlock_errors,
                    tvars, xvars >>

CatchUpSpec == Init /\ [][CatchUp]_vars

\* C40: the loop over a timer at a tick ends after at most three passes, with
\* at most three callbacks; a timer whose interval_time is 0 gets one pass at
\* most; backlog_resets goes up, by one, exactly when the first pass finds
\* wait_time below -interval_time; after the tick wait_time is not negative,
\* and is positive for a timer with an interval_time
C40_CatchUpBounded ==
    result.op = "TimerTick" =>
        LET cb == result.before
            due == cb.wait_time - result.tick_time
        IN  /\ result.passes <= 3
            /\ result.n <= result.passes
            /\ result.passes = 0 <=> due > 0
            /\ cb.interval_time <= 0 => result.passes <= 1
            /\ result.after.backlog_resets - cb.backlog_resets =
                 (IF due <= 0 /\ due + cb.interval_time < -cb.interval_time THEN 1 ELSE 0)
            /\ result.after.wait_time >= 0
            /\ cb.interval_time > 0 => result.after.wait_time > 0
            /\ result.after.interval_time = cb.interval_time

\* a timer that is far behind gets three callbacks at one tick: its wait_time
\* is set to -interval_time, and two more passes make it positive
C40_Witness ==
    /\ result.op = "TimerTick"
    /\ result.tick_time = 2147483647
    /\ result.before.interval_time > 0
    /\ result.after.backlog_resets = 1
    /\ result.n = 3
    /\ result.after.wait_time = result.before.interval_time

(***************************************************************************)
(* OS_DeleteAllObjects with a main task that is given the processor.       *)
(***************************************************************************)
\* objects of two types: a queue, which a task may hold a reference of, and a file system, which
\* OS_CleanUpObject has no delete for
DeleteAllFairSpec ==
    /\ DeleteAllStart(SUBSET { OS_OBJECT_TYPE_OS_QUEUE, OS_OBJECT_TYPE_OS_FILESYS })
    /\ [][DeleteAllNext]_vars
    /\ WF_vars(OS_DeleteAllObjects)

\* C35: a call of OS_DeleteAllObjects returns, whatever its deletes give: the
\* passes end with ObjectCount = 0 or with TryCount = 5, at most five passes
\* are made, and the empty loop after the passes is never entered
C35_DeleteAllReturns ==
    /\ [](common.pc # "spin")
    /\ [](common.pc = "OS_ForEachObject" => common.TryCount \in 1 .. 5)
    /\ []((common.pc = "idle" /\ common.sweeps > 0)
            => (common.ObjectCount = 0 \/ common.TryCount = 5))
    /\ (common.pc = "OS_ForEachObject") ~> (common.pc = "idle")

\* the call has returned after five passes, the last of which saw an object
C35_Witness ==
    /\ common.pc = "idle"
    /\ common.sweeps > 0
    /\ common.TryCount = 5
    /\ common.ObjectCount > 0
    /\ Len(common.delays) = 4

(***************************************************************************)
(* The codes of OS_mount and OS_unmount.                                   *)
(***************************************************************************)
\* the names a call of OS_mount or OS_unmount that has returned r was given,
\* each with the size of the field of the entry it is checked against; a
\* return past the checks keeps the names only when it is past the lookup
MountNames(r) ==
    IF r.str = EmptyStr THEN { }
    ELSE IF r.op = "OS_mount"
    THEN { << r.str[1], OS_FS_DEV_NAME_LEN >>, << r.str[2], OS_MAX_PATH_LEN >> }
    ELSE { << r.str, OS_MAX_PATH_LEN >> }

\* C36: OS_mount and OS_unmount return OS_SUCCESS, OS_INVALID_POINTER,
\* OS_FS_ERR_PATH_TOO_LONG or OS_ERR_NAME_NOT_FOUND, and nothing else;
\* OS_INVALID_POINTER is returned only for a null name and
\* OS_FS_ERR_PATH_TOO_LONG only for a name that is too long, so that with
\* names that are not null and not too long every failure, whether of the
\* lookup, of the test of the flags or of the adapter, is returned as
\* OS_ERR_NAME_NOT_FOUND
C36_MountCodes ==
    result.op \in { "OS_mount", "OS_unmount" } =>
        /\ result.ret \in { "OS_SUCCESS", "OS_INVALID_POINTER", "OS_FS_ERR_PATH_TOO_LONG",
                            "OS_ERR_NAME_NOT_FOUND" }
        /\ result.ret = "OS_INVALID_POINTER"
             => \E a \in MountNames(result) : a[1] = NullPtr
        /\ result.ret = "OS_FS_ERR_PATH_TOO_LONG"
             => /\ \A a \in MountNames(result) : a[1] # NullPtr
                /\ \E a \in MountNames(result) : StrLen(a[1]) >= a[2]
        /\ result.ret \in { "OS_SUCCESS", "OS_ERR_NAME_NOT_FOUND" }
             => \A a \in MountNames(result) : a[1] # NullPtr /\ StrLen(a[1]) < a[2]

\* OS_mount has returned OS_ERR_NAME_NOT_FOUND for a device that is registered:
\* the adapter has failed to mount the volume
C36_Witness ==
    /\ result.op = "OS_mount"
    /\ result.ret = "OS_ERR_NAME_NOT_FOUND"
    /\ result.str # EmptyStr
    /\ result.impl = << "OS_FileSysMountVolume_Impl" >>
    /\ result.id # OS_OBJECT_ID_UNDEFINED

(***************************************************************************)
(* OS_rmfs on file systems that are mounted, not mounted, and in use.      *)
(***************************************************************************)
\* task 1 makes file systems and maps fixed ones, which are ready and not
\* mounted, or mounted; both tasks check and remove them
RmfsNext ==
    \/ OS_mkfs(1)
    \/ OS_FileSysAddFixedMap(1)
    \/ \E t \in Threads : OS_rmfs(t)
    \/ \E t \in Threads : OS_chkfs(t)

RmfsSpec == Init /\ [][RmfsNext]_vars

\* task t takes a step of OS_rmfs from the position pc
RmfsStep(t, pc) == th[t].op = "OS_rmfs" /\ th[t].pc = pc /\ th'[t] # th[t]

\* C37: OS_rmfs that has found the device, whatever its flags, calls the stop
\* of the adapter and returns its code with the type-lock given up; the entry
\* is freed exactly when the code is OS_SUCCESS, and then no search finds the
\* device name, and none finds the entry by its virtual mount point; with
\* another code the table is as it was.  OS_rmfs whose lookup fails, for a
\* device that is missing or in use, returns OS_ERR_NAME_NOT_FOUND.
C37_RmfsFreesOnStop ==
    [][\A t \in Threads :
        LET FS == OS_OBJECT_TYPE_OS_FILESYS
            i == th[t].slot
            local == internal[FS][i]
        IN  /\ RmfsStep(t, "Delete_Impl") =>
                /\ lock[FS] = t
                /\ lock'[FS] = 0
                /\ unlock_errors' = unlock_errors
                /\ result'.op = "OS_rmfs"
                /\ result'.ret \in AdapterCodes
                /\ internal' = internal
                /\ IF result'.ret = "OS_SUCCESS"
                   THEN /\ table'[FS][i].active_id = OS_OBJECT_ID_UNDEFINED
                        /\ (OS_ObjectIdSearch(FS, "OS_ObjectNameMatch", th[t].arg))' = -1
                        /\ (OS_ObjectIdSearch(FS, "OS_FileSys_FindVirtMountPoint",
                                              local.virtual_mountpt))' # i
                   ELSE /\ table' = table
                        /\ IsActive(FS, table'[FS][i])
            /\ (RmfsStep(t, "Retry") /\ th'[t].pc = "idle") =>
                /\ result'.ret = "OS_ERR_NAME_NOT_FOUND"
                /\ \A s \in Slots : table'[FS][s].active_id = table[FS][s].active_id
                /\ lock' = lock
            /\ (Ready(t) /\ th' = th /\ vars' # vars
                  /\ result'.op = "OS_rmfs" /\ result'.task = t) =>
                /\ result'.ret \in { "OS_INVALID_POINTER", "OS_FS_ERR_PATH_TOO_LONG",
                                     "OS_ERR_NAME_NOT_FOUND" }
                /\ \A s \in Slots : table'[FS][s].active_id = table[FS][s].active_id
                /\ lock' = lock
      ]_vars

\* OS_rmfs has freed the entry of a file system that was mounted
C37_Witness ==
    LET FS == OS_OBJECT_TYPE_OS_FILESYS
        x == OS_ObjectIdToArrayIndex(FS, result.id)
    IN  /\ result.op = "OS_rmfs"
        /\ result.ret = "OS_SUCCESS"
        /\ x.rc = "OS_SUCCESS"
        /\ table[FS][x.idx].active_id = OS_OBJECT_ID_UNDEFINED
        /\ Mounted \subseteq internal[FS][x.idx].flags

(***************************************************************************)
(* Reserved slots.  Binary semaphores and file systems are created by two  *)
(* tasks at once; semaphores are deleted again.                            *)
(***************************************************************************)
ReserveNext ==
    \E t \in Threads :
        \/ OS_BinSemCreate(t)
        \/ OS_BinSemDelete(t)
        \/ OS_mkfs(t)

ReserveSpec == Init /\ [][ReserveNext]_vars

\* the slots of a type whose record holds the reserved sentinel
ReservedSlots(idtype) ==
    { s \in Slots : table[idtype][s].active_id = OS_OBJECT_ID_RESERVED }

\* task t is between OS_ObjectIdAllocateNew and OS_ObjectIdFinalizeNew
Creating(t) == th[t].pc = "Create_Impl"

\* the type of the table a create call works on
CreateType(op) ==
    IF op = "OS_BinSemCreate" THEN OS_OBJECT_TYPE_OS_BINSEM ELSE OS_OBJECT_TYPE_OS_FILESYS

\* the step in which task t leaves its create call after a successful
\* OS_ObjectIdAllocateNew: the record it had reserved is finalized once, to the
\* handle on success and to the undefined id on failure, the type-lock is
\* released and the call returns
FinalizesOnce(t) ==
    LET idtype == CreateType(th[t].op)
        rec == table'[idtype][th[t].slot]
    IN  /\ th'[t].pc = "idle"
        /\ result'.task = t /\ result'.op = th[t].op
        /\ lock[idtype] = t /\ lock'[idtype] = 0
        /\ unlock_errors' = unlock_errors
        /\ IF result'.ret = "OS_SUCCESS"
           THEN rec.active_id = OS_ObjectIdCompose_Impl(idtype, last_id_issued[idtype])
           ELSE rec.active_id = OS_OBJECT_ID_UNDEFINED
        /\ \A s \in Slots \ { th[t].slot } :
             table'[idtype][s].active_id = table[idtype][s].active_id

\* C38: at most one slot of a type is reserved at any time, and it is the slot
\* of the task that holds the type-lock and is between OS_ObjectIdAllocateNew
\* and OS_ObjectIdFinalizeNew; a task that is in no call holds no type-lock; and
\* the step that ends a create call after a successful allocation finalizes the
\* reserved record exactly once and releases the type-lock, whatever the
\* adapter has returned, so that no slot stays reserved after the call
C38_ReservedSlots ==
    /\ [](\A idtype \in Types :
            /\ Cardinality(ReservedSlots(idtype)) <= 1
            /\ \A s \in ReservedSlots(idtype) :
                 /\ lock[idtype] \in Threads
                 /\ Creating(lock[idtype])
                 /\ CreateType(th[lock[idtype]].op) = idtype
                 /\ th[lock[idtype]].slot = s)
    /\ [](\A t \in Threads : Ready(t) => \A idtype \in Types : lock[idtype] # t)
    /\ [][\A t \in Threads :
            /\ (~Creating(t) /\ Creating(t)')
                 => { s \in Slots : table'[CreateType(th'[t].op)][s].active_id
                                         = OS_OBJECT_ID_RESERVED } = { th'[t].slot }
            /\ (Creating(t) /\ ~Creating(t)') => FinalizesOnce(t)]_vars

\* a file system whose creation has failed in the adapter has left no reserved
\* slot and no lock, while the other task has a semaphore slot reserved
C38_Witness ==
    /\ result.op = "OS_mkfs" /\ result.ret = "OS_ERROR"
    /\ Ready(result.task)
    /\ ReservedSlots(OS_OBJECT_TYPE_OS_FILESYS) = {}
    /\ lock[OS_OBJECT_TYPE_OS_FILESYS] = 0
    /\ \E t \in Threads : Creating(t) /\ ReservedSlots(OS_OBJECT_TYPE_OS_BINSEM) = { th[t].slot }

(***************************************************************************)
(* Tasks (os-impl-tasks.c of VxWorks).  The tables of the id manager have  *)
(* an entry for the tasks as well; the callers are threads that OSAL has   *)
(* not created, for which OS_TaskGetId_Impl gives the undefined id.        *)
(***************************************************************************)
TaskTypes == Types \cup { OS_OBJECT_TYPE_OS_TASK }

\* VxWorks_ID_Buffer_t: the int that shares its 32 bits with an id, and back
VxWorks_ID_Buffer_arg(id) ==
    IF id[1] >= Half \div 2 THEN (id[1] - Half) * Half + id[2] ELSE id[1] * Half + id[2]

VxWorks_ID_Buffer_id(arg) == << (arg \div Half) % Half, arg % Half >>

\* OS_VxWorks_TaskEntry(arg): the id OS_TaskEntryPoint is called with
OS_VxWorks_TaskEntry(arg) == VxWorks_ID_Buffer_id(arg)

StackArgs == { "NULL", "heap" }
TaskInitCodes == { "OK", "ERROR" }

\* OS_TaskCreate_Impl(task_id, flags): userstackbase is the stack the task gets
\* from its creator or from malloc, status what taskInit returns; "entry" is the
\* id the new task is started with, none when no task starts
OS_TaskCreate_Impl(task_id, userstackbase, status) ==
    LET id == table[OS_OBJECT_TYPE_OS_TASK][task_id].active_id
    IN  IF userstackbase = "NULL"
        THEN [ rc |-> "OS_ERROR", started |-> FALSE, entry |-> NoId ]
        ELSE IF status # "OK"
        THEN [ rc |-> "OS_ERROR", started |-> FALSE, entry |-> NoId ]
        ELSE [ rc |-> "OS_SUCCESS", started |-> TRUE,
               entry |-> OS_VxWorks_TaskEntry(VxWorks_ID_Buffer_arg(id)) ]

\* what OS_TaskCreate gives back, with the slot of the task and what the
\* adapter has done
TaskDone(t, rc, out, local_id, impl) ==
    [ task |-> t, op |-> "OS_TaskCreate", id |-> NoId, ret |-> rc, out |-> out,
      str |-> EmptyStr, slot |-> local_id, started |-> impl.started, entry |-> impl.entry ]

\* OS_TaskCreate: the create call of the wrappers, for tasks
OS_TaskCreate(t) ==
    \/ /\ Ready(t)
       /\ last_id_issued[OS_OBJECT_TYPE_OS_TASK] < MaxIssued
       /\ \E task_id \in PtrArgs, task_name \in NameArgs :
            IF task_id = "NULL" \/ task_name = NullPtr
            THEN ReturnEarly(t, "OS_TaskCreate", "OS_INVALID_POINTER")
            ELSE IF StrLen(task_name) >= OS_MAX_API_NAME
            THEN ReturnEarly(t, "OS_TaskCreate", "OS_ERR_NAME_TOO_LONG")
            ELSE AllocateStep(t, "OS_TaskCreate", OS_OBJECT_TYPE_OS_TASK, task_name,
                              [ name |-> task_name ], << "ptr" >>, SameCode)
    \/ /\ At(t, "OS_TaskCreate", "Create_Impl")
       /\ \E userstackbase \in StackArgs, status \in TaskInitCodes :
            LET impl == OS_TaskCreate_Impl(th[t].slot, userstackbase, status)
                f == OS_ObjectIdFinalizeNew(impl.rc, OS_OBJECT_TYPE_OS_TASK, th[t].slot,
                                            internal[OS_OBJECT_TYPE_OS_TASK])
            IN  /\ table' = [table EXCEPT ![OS_OBJECT_TYPE_OS_TASK] = f.tab]
                /\ internal' = [internal EXCEPT ![OS_OBJECT_TYPE_OS_TASK] = f.int]
                /\ unlock_errors' = unlock_errors
                                      + UnlockError(lock, t, OS_OBJECT_TYPE_OS_TASK)
                /\ lock' = OS_Unlock_Global(lock, t, OS_OBJECT_TYPE_OS_TASK)
                /\ Return(t, TaskDone(t, f.rc, f.outid, th[t].slot, impl))
                /\ deleted' = deleted \ { f.outid }
                /\ UNCHANGED last_id_issued

TaskInit ==
    /\ table = [ ty \in TaskTypes |-> [ s \in Slots |-> ZeroCommon ] ]
    /\ internal = [ ty \in TaskTypes |-> [ s \in Slots |-> ZeroInternal(ty) ] ]
    /\ last_id_issued = [ ty \in TaskTypes |-> 0 ]
    /\ lock = [ ty \in TaskTypes |-> 0 ]
    /\ th = [ t \in Threads |-> IdleTh ]
    /\ result = NoResult
    /\ deleted = {}
    /\ unlock_errors = 0
    /\ svc = NoSvc
    /\ ticks = 0
    /\ armed = [ s \in Slots |-> [ wait_time |-> 0, interval_time |-> 0 ] ]
    /\ calls = [ s \in Slots |-> << >> ]
    /\ ticks_before = 0
    /\ common = CommonInit
    /\ codec = NoCodec
    /\ registered = [ t \in Threads |-> OS_OBJECT_ID_UNDEFINED ]

TaskNext ==
    \E t \in Threads :
        \/ OS_TaskCreate(t)
        \/ OS_BinSemCreate(t)

TaskSpec == TaskInit /\ [][TaskNext]_vars

\* C39: the id a new task is started with is the handle that OS_TaskCreate
\* stores in active_id of the task's record and returns to its caller, and it
\* is neither the reserved sentinel nor the undefined id
C39_EntryIdIsHandle ==
    (result.op = "OS_TaskCreate" /\ result.ret = "OS_SUCCESS" /\ result.started)
        => /\ OS_ObjectIdEqual(result.entry, result.out)
           /\ OS_ObjectIdEqual(result.entry,
                               table[OS_OBJECT_TYPE_OS_TASK][result.slot].active_id)
           /\ ~OS_ObjectIdEqual(result.entry, OS_OBJECT_ID_RESERVED)
           /\ OS_ObjectIdDefined(result.entry)

(***************************************************************************)
(* OS_GetFsInfo (osapi-filesys.c) counts the free entries of the stream    *)
(* table and of the file system table, each under the lock of its type.    *)
(* The tables of the id manager have an entry for the streams as well; no  *)
(* stream is open.                                                         *)
(***************************************************************************)
OS_OBJECT_TYPE_OS_STREAM == 6

LockTypes == Types \cup { OS_OBJECT_TYPE_OS_STREAM }

\* the entries of a table whose id is not defined
FreeEntries(idtype) ==
    Cardinality({ i \in Slots : ~OS_ObjectIdDefined(table[idtype][i].active_id) })

\* what OS_GetFsInfo gives back: its code and *filesys_info
FsInfoDone(t, rc, FreeFds, FreeVolumes) ==
    [ task |-> t, op |-> "OS_GetFsInfo", id |-> NoId, ret |-> rc, out |-> NoId,
      str |-> EmptyStr, MaxFds |-> MaxSlots, MaxVolumes |-> MaxSlots,
      FreeFds |-> FreeFds, FreeVolumes |-> FreeVolumes ]

\* a step of OS_GetFsInfo that goes on to the position pc, with FreeFds counted
FsInfoStep(t, pc, FreeFds) ==
    /\ th' = [th EXCEPT ![t] = [IdleTh EXCEPT !.pc = pc, !.op = "OS_GetFsInfo",
                                              !.arg = FreeFds]]
    /\ result' = NoResult
    /\ UNCHANGED << table, internal, last_id_issued, deleted, tvars, xvars >>

\* OS_GetFsInfo that keeps the lock of the streams while it counts the volumes
OS_GetFsInfo_Nested(t) ==
    \/ /\ Ready(t)
       /\ \E filesys_info \in PtrArgs :
            IF filesys_info = "NULL"
            THEN ReturnEarly(t, "OS_GetFsInfo", "OS_INVALID_POINTER")
            ELSE /\ LockFree(OS_OBJECT_TYPE_OS_STREAM)
                 /\ lock' = OS_Lock_Global(lock, t, OS_OBJECT_TYPE_OS_STREAM)
                 /\ FsInfoStep(t, "Streams", 0)
                 /\ UNCHANGED unlock_errors
    \/ /\ At(t, "OS_GetFsInfo", "Streams")
       /\ FsInfoStep(t, "Unlocked", FreeEntries(OS_OBJECT_TYPE_OS_STREAM))
       /\ UNCHANGED << lock, unlock_errors >>
    \/ /\ At(t, "OS_GetFsInfo", "Unlocked")
       /\ LockFree(OS_OBJECT_TYPE_OS_FILESYS)
       /\ lock' = OS_Lock_Global(lock, t, OS_OBJECT_TYPE_OS_FILESYS)
       /\ FsInfoStep(t, "Volumes", th[t].arg)
       /\ UNCHANGED unlock_errors
    \/ /\ At(t, "OS_GetFsInfo", "Volumes")
       /\ unlock_errors' = unlock_errors + UnlockError(lock, t, OS_OBJECT_TYPE_OS_FILESYS)
       /\ lock' = OS_Unlock_Global(OS_Unlock_Global(lock, t, OS_OBJECT_TYPE_OS_FILESYS),
                                   t, OS_OBJECT_TYPE_OS_STREAM)
       /\ Return(t, FsInfoDone(t, "OS_SUCCESS", th[t].arg,
                               FreeEntries(OS_OBJECT_TYPE_OS_FILESYS)))
       /\ UNCHANGED << table, internal, last_id_issued, deleted >>

OS_GetFsInfo(t) ==
    \/ /\ Ready(t)
       /\ \E filesys_info \in PtrArgs :
            IF filesys_info = "NULL"
            THEN ReturnEarly(t, "OS_GetFsInfo", "OS_INVALID_POINTER")
            ELSE /\ LockFree(OS_OBJECT_TYPE_OS_STREAM)
                 /\ lock' = OS_Lock_Global(lock, t, OS_OBJECT_TYPE_OS_STREAM)
                 /\ FsInfoStep(t, "Streams", 0)
                 /\ UNCHANGED unlock_errors
    \* the streams are counted, and OS_Unlock_Global(OS_OBJECT_TYPE_OS_STREAM)
    \/ /\ At(t, "OS_GetFsInfo", "Streams")
       /\ unlock_errors' = unlock_errors + UnlockError(lock, t, OS_OBJECT_TYPE_OS_STREAM)
       /\ lock' = OS_Unlock_Global(lock, t, OS_OBJECT_TYPE_OS_STREAM)
       /\ FsInfoStep(t, "Unlocked", FreeEntries(OS_OBJECT_TYPE_OS_STREAM))
    \* OS_Lock_Global(OS_OBJECT_TYPE_OS_FILESYS)
    \/ /\ At(t, "OS_GetFsInfo", "Unlocked")
       /\ LockFree(OS_OBJECT_TYPE_OS_FILESYS)
       /\ lock' = OS_Lock_Global(lock, t, OS_OBJECT_TYPE_OS_FILESYS)
       /\ FsInfoStep(t, "Volumes", th[t].arg)
       /\ UNCHANGED unlock_errors
    \* the volumes are counted, and OS_Unlock_Global(OS_OBJECT_TYPE_OS_FILESYS)
    \/ /\ At(t, "OS_GetFsInfo", "Volumes")
       /\ unlock_errors' = unlock_errors + UnlockError(lock, t, OS_OBJECT_TYPE_OS_FILESYS)
       /\ lock' = OS_Unlock_Global(lock, t, OS_OBJECT_TYPE_OS_FILESYS)
       /\ Return(t, FsInfoDone(t, "OS_SUCCESS", th[t].arg,
                               FreeEntries(OS_OBJECT_TYPE_OS_FILESYS)))
       /\ UNCHANGED << table, internal, last_id_issued, deleted >>

\* a semaphore created by task 1 with the serial number 1
LockInit ==
    LET BS == OS_OBJECT_TYPE_OS_BINSEM
    IN  /\ table = [ ty \in LockTypes |-> [ s \in Slots |->
                       IF ty = BS /\ s = 1 % MaxSlots
                       THEN [ZeroCommon EXCEPT !.name_entry = "name",
                                 !.active_id = OS_ObjectIdCompose_Impl(BS, 1),
                                 !.creator = TaskHandle(1)]
                       ELSE ZeroCommon ] ]
        /\ internal = [ ty \in LockTypes |-> [ s \in Slots |->
                          IF ty = BS /\ s = 1 % MaxSlots
                          THEN [ZeroInternal(ty) EXCEPT !.name = << "a" >>]
                          ELSE ZeroInternal(ty) ] ]
        /\ last_id_issued = [ ty \in LockTypes |-> IF ty = BS THEN 1 ELSE 0 ]
        /\ lock = [ ty \in LockTypes |-> 0 ]
        /\ th = [ t \in Threads |-> IdleTh ]
        /\ result = NoResult
        /\ deleted = {}
        /\ unlock_errors = 0
        /\ svc = NoSvc
        /\ ticks = 0
        /\ armed = [ s \in Slots |-> [ wait_time |-> 0, interval_time |-> 0 ] ]
        /\ calls = [ s \in Slots |-> << >> ]
        /\ ticks_before = 0
        /\ common = [CommonInit EXCEPT !.Initialized = TRUE]
        /\ codec = NoCodec
        /\ registered = [ t \in Threads |-> TaskHandle(t) ]

\* task 1 deletes semaphores and reads the counts of the file systems, task 2
\* creates file systems, and the main task deletes all objects
LockNext ==
    \/ OS_GetFsInfo(1)
    \/ OS_BinSemDelete(1)
    \/ OS_mkfs(2)
    \/ OS_DeleteAllObjects

LockSpec == LockInit /\ [][LockNext]_vars

\* the types whose lock task t holds
Held(t) == { idtype \in DOMAIN lock : lock[idtype] = t }

\* task t is where its next step is a call of OS_Lock_Global
AtLockCall(t) == th[t].pc \in { "idle", "Retry", "Unlocked" }

\* C33: a task holds the lock of one type at most; a task takes a type-lock only
\* when the lock is free and the task holds no type-lock, and a task that is
\* about to call OS_Lock_Global, or is in no call, holds none: OS_GetFsInfo has
\* released the lock of the streams when it asks for the lock of the file
\* systems; the main task in OS_ForEachObject holds no lock when its callback
\* calls a delete wrapper, which finds the lock of the type free and leaves it
\* free.
C33_OneLockAtATime ==
    /\ [](\A t \in Threads :
            /\ Cardinality(Held(t)) <= 1
            /\ AtLockCall(t) => Held(t) = {}
            /\ At(t, "OS_GetFsInfo", "Volumes") => Held(t) = { OS_OBJECT_TYPE_OS_FILESYS })
    /\ [][/\ \A t \in Threads, idtype \in DOMAIN lock :
               (lock[idtype] # t /\ lock'[idtype] = t)
                   => (lock[idtype] = 0 /\ Held(t) = {})
          /\ (common'.cursor # common.cursor /\ common'.called # "none")
               => (lock[VisitType(common.cursor)] = 0 /\ lock' = lock)]_vars

\* a task counts the volumes under the lock of the file systems, the lock of the
\* streams being free, after the main task has deleted a semaphore
C33_Witness ==
    /\ \E t \in Threads :
         /\ At(t, "OS_GetFsInfo", "Volumes")
         /\ lock[OS_OBJECT_TYPE_OS_FILESYS] = t
         /\ lock[OS_OBJECT_TYPE_OS_STREAM] = 0
    /\ common.pc = "OS_ForEachObject"
    /\ common.pass_deleted > 0

=============================================================================
